---- MODULE Spec2Model ----
(***************************************************************************)
(* Transactional persistence core of holochain-persistence: an LMDB        *)
(* backed primary CAS + EAV environment, per-cursor staging stores, and    *)
(* the cursor commit with grow-and-retry on StoreError::MapFull.           *)
(*                                                                         *)
(* Sizes are counted in abstract units (one unit stands for the initial    *)
(* mapped size of the test manager, 1024 * 1024 bytes).                    *)
(***************************************************************************)
EXTENDS Integers, Sequences, FiniteSets, TLC

\* ------------------------------------------------------------------ bounds
MaxCursors == 2      \* cursors minted by create_cursor
NumContents == 2     \* distinct raw contents; content n occupies n units
MaxIndex == 2        \* EAV indices are drawn from 1..MaxIndex
MaxStaged == 2       \* entries a workload stages in one cursor
MaxNew == 3          \* records a process creates with EntityAttributeValueIndex::new
InitMapSize == 1     \* initial_map_size of the primary environment
CommitOverhead == 1  \* units the backend needs on top of the data at txn commit
MaxHandles == 2      \* handles of one NonTransactionalCursor (the cursor and its clones)
MaxInbox == 2        \* events posted to a MirrorDht between two calls of process
MaxTimestamp == 1    \* peer timestamps are drawn from 0..MaxTimestamp
MaxAspects == 1      \* aspects of an entry are drawn from 1..MaxAspects
MaxListeners == 2    \* successful calls of StdNetNode::listen
MaxClients == 1      \* client sessions of a StdNetNode
MaxNewCons == 1      \* accepted connections whose session has no id yet
MaxEvents == 4       \* events a StdNetNode pushes in a run

Cursors == 1 .. MaxCursors
Handles == 1 .. MaxHandles

\* ------------------------------------------------------------ data model
Attributes == {"color"}

NoRecord == [entity |-> 0, attribute |-> "", value |-> 0, index |-> 0]

\* EntityAttributeValueIndex { entity, attribute, value, index }
Records == [entity : {1}, attribute : Attributes, value : {1}, index : 1 .. MaxIndex]

\* Content of a raw string / of an EAVI used as AddressableContent
RawContent(n) == [kind |-> "raw", n |-> n, r |-> NoRecord]
EaviContent(r) == [kind |-> "eavi", n |-> 0, r |-> r]

RawContents == {RawContent(n) : n \in 1 .. NumContents}
Contents == RawContents \cup {EaviContent(r) : r \in Records}

\* AddressableContent::address(): the (collision free) hash of the content
Address(c) == [hash |-> c]
Addresses == {Address(c) : c \in Contents}
RawAddresses == {Address(c) : c \in RawContents}

\* content.content().to_string() and JsonString::from_json(s)
ToJsonStr(c) == [json |-> c]
FromJson(s) == s.json

None == [some |-> FALSE, v |-> RawContent(0)]
Some(c) == [some |-> TRUE, v |-> c]

\* bytes a content / a record occupies in the mapped region
Size(c) == IF c.kind = "raw" THEN c.n ELSE 1
EavSize == 1

\* key order of the stores (lmdb iterates a store in key order)
AttrRank(a) == IF a = "color" THEN 0 ELSE 1
RecRank(r) == 2 * r.index + AttrRank(r.attribute)
ContentRank(c) == IF c.kind = "raw" THEN c.n ELSE NumContents + RecRank(c.r)

EmptyCas == [a \in {} |-> ToJsonStr(RawContent(0))]
EmptyPickle == [key \in {} |-> [cbor |-> RawContent(0)]]

\* mutant of lmdb_add: a put to an address that is stored replaces the value by
\* an empty one
lmdb_add_clobber(store, content) ==
    [a \in DOMAIN store \cup {Address(content)} |->
        IF a = Address(content)
        THEN (IF a \in DOMAIN store THEN ToJsonStr(RawContent(0)) ELSE ToJsonStr(content))
        ELSE store[a]]

\* LmdbStorage::lmdb_add: put content.to_string() under content.address()
lmdb_add(store, content) ==
    [a \in DOMAIN store \cup {Address(content)} |->
        IF a = Address(content) THEN ToJsonStr(content) ELSE store[a]]

\* LmdbStorage::lmdb_fetch: exact key lookup, Value::Json(s) => from_json(s)
lmdb_fetch(store, address) ==
    IF address \in DOMAIN store THEN Some(FromJson(store[address])) ELSE None

\* contents held by a CAS store (lmdb_iter yields (address, Some(content)))
lmdb_iter(store) == {FromJson(store[a]) : a \in DOMAIN store}

\* the store after adding every content of S
RECURSIVE AddAll(_, _)
AddAll(store, S) ==
    IF S = {} THEN store
    ELSE LET c == CHOOSE x \in S : TRUE IN AddAll(lmdb_add(store, c), S \ {c})

RECURSIVE SumSize(_)
SumSize(S) ==
    IF S = {} THEN 0
    ELSE LET c == CHOOSE x \in S : TRUE IN Size(c) + SumSize(S \ {c})

\* units of the mapped region a (cas, eav) pair occupies
Used(casStore, eavStore) == SumSize(lmdb_iter(casStore)) + EavSize * Cardinality(eavStore)


\* ------------------------------------------------------------ EAV queries
\* EaviQuery: entity / attribute / value filter (0 or "" = any) + IndexFilter
Queries == [entity : {0, 1}, attribute : {"", "color"}, value : {0},
            index : {"None", "LatestByAttribute"}]

\* EaviQuery::default(): every filter open
DefaultQuery == [entity |-> 0, attribute |-> "", value |-> 0, index |-> "None"]

\* match phase: records satisfying the triple filter
Match(store, q) ==
    {r \in store : /\ (q.entity = 0 \/ r.entity = q.entity)
                   /\ (q.attribute = "" \/ r.attribute = q.attribute)
                   /\ (q.value = 0 \/ r.value = q.value)}

\* index-filter phase
IndexFiltered(S, q) ==
    IF q.index = "LatestByAttribute"
    THEN {r \in S : \A s \in S : s.attribute = r.attribute => s.index <= r.index}
    ELSE S

\* impl Ord for EntityAttributeValueIndex: cmp compares the index only
cmp(r1, r2) ==
    IF r1.index < r2.index THEN "Less"
    ELSE IF r1.index > r2.index THEN "Greater" ELSE "Equal"

\* the BTreeSets that collecting S can give: a BTreeSet keeps one element of
\* every class of elements that compare Equal (which one depends on the
\* insertion order)
BTreeSets(S) ==
    {T \in SUBSET S :
        /\ \A r \in S : \E t \in T : cmp(t, r) = "Equal"
        /\ \A t1, t2 \in T : cmp(t1, t2) = "Equal" => t1 = t2}

\* EntityAttributeValueStorage::fetch_eavi on a backend store: the possible results
EavResults(store, q) == BTreeSets(IndexFiltered(Match(store, q), q))

\* records of a store in commit order (fetch_lmdb_eavi with the default query)
fetch_lmdb_eavi(store, q) == IndexFiltered(Match(store, q), q)

\* ------------------------------------------------------------------ state
VARIABLES
    cas,           \* primary CAS store: Address -> stored json string
    eav,           \* primary EAV store: set of records
    map_size,      \* mapped size of the primary environment
    env_lock,      \* cursor holding the primary environment write lock, 0 = free
    pc,            \* per cursor: absent, open, position inside commit, returned
    result,        \* per cursor: what commit returned
    staging_cas,   \* per cursor: staging CAS store
    staging_eav,   \* per cursor: staging EAV store
    cas_todo,      \* per cursor: staged_cas_data not yet iterated
    eav_todo,      \* per cursor: staged_eav_data not yet iterated
    writer,        \* per cursor: the open write transaction on the primary
    faulted,       \* per cursor: a backend call of its commit failed (not MapFull)
    staging_lock,  \* per cursor: its commit holds the staging environment read lock
    clones,        \* cursors of which a clone (a second handle) is alive
    pickle_db,     \* the PickleDb of a PickleStorage: key -> serialized value
    clock,         \* what Utc::now().timestamp_nanos() returns
    indices,       \* the indices EntityAttributeValueIndex::new assigned, in call order
    ntc_pc,        \* per NonTransactionalCursor handle: absent, live, committed
    ntc_ref,       \* per handle: the stores its cas / eav fields point to
    ntc_cas,       \* per shared CAS store (an Arc<RwLock<PickleDb>>): its PickleDb
    ntc_eav,       \* per shared EAV store: its records
    ntc_result,    \* per handle: what commit returned
    dht_inbox,     \* MirrorDht::inbox
    dht_peer_list, \* MirrorDht::peer_list: peer address -> PeerHoldRequestData
    dht_data_list, \* MirrorDht::data_list: entry address -> EntryData
    dht_out,       \* what the last call of MirrorDht::process gave its caller
    node           \* a StdNetNode, with the record of what its caller has seen

vars == <<cas, eav, map_size, env_lock, pc, result, staging_cas, staging_eav,
          cas_todo, eav_todo, writer, faulted, staging_lock, clones, pickle_db,
          clock, indices, ntc_pc, ntc_ref, ntc_cas, ntc_eav, ntc_result,
          dht_inbox, dht_peer_list, dht_data_list, dht_out, node>>

primaryVars == <<cas, eav, map_size>>
commitVars == <<env_lock, result, cas_todo, eav_todo, writer, faulted, staging_lock>>
clockVars == <<clock, indices>>
ntcVars == <<ntc_pc, ntc_ref, ntc_cas, ntc_eav, ntc_result>>
dhtVars == <<dht_inbox, dht_peer_list, dht_data_list, dht_out>>
otherVars == <<clones, pickle_db, clockVars, ntcVars, dhtVars, node>>
coreVars == <<clones, pickle_db, clockVars, primaryVars, commitVars, pc,
              staging_cas, staging_eav>>

NoRef == [cas |-> 0, eav |-> 0]

\* StdNetNode::new: no listener, no session, no event.  op, count, nlisten,
\* returned, ndelivered and accept_err record the history: the last call,
\* events pushed and listeners created so far, what the last process_once
\* returned, events returned so far, listeners whose accept failed in the
\* last process_once
StdNetNode_new ==
    [listen_cons |-> <<>>, server_new_cons |-> 0, server_cons |-> {},
     client_cons |-> 0, events |-> <<>>, op |-> "new",
     count |-> 0, nlisten |-> 0, returned |-> <<>>, ndelivered |-> 0, accept_err |-> {}]

\* ------------------------------------------------------- MirrorDht: data
PeerAddresses == {"p1", "p2"}
EntryAddresses == {"e1"}

\* PeerHoldRequestData { peer_address, transport, timestamp }
PeerInfos == [peer_address : PeerAddresses, transport : {"tcp"},
              timestamp : 0 .. MaxTimestamp]
NoPeer == [peer_address |-> "", transport |-> "", timestamp |-> 0]

\* EntryData { entry_address, aspect_list }
Entries == [entry_address : EntryAddresses, aspect_list : SUBSET (1 .. MaxAspects)]
NoEntry == [entry_address |-> "", aspect_list |-> {}]

\* a gossip bundle: the rmp serialization of an EntryData or of a
\* PeerHoldRequestData, or bytes that are neither
NoBundle == [kind |-> "none", peer |-> NoPeer, entry |-> NoEntry]
SerializeEntry(entry) == [kind |-> "entry", peer |-> NoPeer, entry |-> entry]
SerializePeer(peer) == [kind |-> "peer", peer |-> peer, entry |-> NoEntry]
JunkBundle == [kind |-> "junk", peer |-> NoPeer, entry |-> NoEntry]
Bundles == {SerializeEntry(e) : e \in Entries} \cup {SerializePeer(q) : q \in PeerInfos}
              \cup {JunkBundle}

\* enum DhtEvent
DhtEvent(type, peer, entry, bundle, peers) ==
    [type |-> type, peer |-> peer, entry |-> entry, bundle |-> bundle,
     peer_address_list |-> peers]
PeerHoldRequest(peer) == DhtEvent("PeerHoldRequest", peer, NoEntry, NoBundle, {})
EntryHoldRequest(entry) == DhtEvent("EntryHoldRequest", NoPeer, entry, NoBundle, {})
RemoteGossipBundle(bundle) == DhtEvent("RemoteGossipBundle", NoPeer, NoEntry, bundle, {})
GossipTo(peers, bundle) == DhtEvent("GossipTo", NoPeer, NoEntry, bundle, peers)
NotServedTypes == {"GossipTo", "UnreliableGossipTo", "EntryFetch", "EntryFetchResponse",
                   "EntryPrune"}

\* the events an owner posts
DhtEvents ==
    {PeerHoldRequest(q) : q \in PeerInfos}
        \cup {EntryHoldRequest(e) : e \in Entries}
        \cup {RemoteGossipBundle(b) : b \in Bundles}
        \cup {DhtEvent("PeerTimedOut", NoPeer, NoEntry, NoBundle, {})}
        \cup {DhtEvent(t, NoPeer, NoEntry, NoBundle, {}) : t \in NotServedTypes}

\* MirrorDht::new: empty inbox, peer_list and data_list
NoPeers == [a \in {} |-> NoPeer]
NoData == [a \in {} |-> NoEntry]
NoOutput == [returned |-> FALSE, did_work |-> FALSE, outbox |-> <<>>, served |-> <<>>]

NoWriter == [open |-> FALSE, cas |-> EmptyCas, eav |-> {}]

Init ==
    /\ cas = EmptyCas
    /\ eav = {}
    /\ map_size = InitMapSize
    /\ env_lock = 0
    /\ pc = [k \in Cursors |-> "absent"]
    /\ result = [k \in Cursors |-> "none"]
    /\ staging_cas = [k \in Cursors |-> EmptyCas]
    /\ staging_eav = [k \in Cursors |-> {}]
    /\ cas_todo = [k \in Cursors |-> {}]
    /\ eav_todo = [k \in Cursors |-> {}]
    /\ writer = [k \in Cursors |-> NoWriter]
    /\ faulted = [k \in Cursors |-> FALSE]
    /\ staging_lock = [k \in Cursors |-> FALSE]
    /\ clones = {}
    /\ pickle_db = EmptyPickle
    /\ clock = 1
    /\ indices = <<>>
    /\ ntc_pc = [h \in Handles |-> IF h = 1 THEN "live" ELSE "absent"]
    /\ ntc_ref = [h \in Handles |-> IF h = 1 THEN [cas |-> 1, eav |-> 1] ELSE NoRef]
    /\ ntc_cas = [s \in Handles |-> EmptyPickle]
    /\ ntc_eav = [s \in Handles |-> {}]
    /\ ntc_result = [h \in Handles |-> "none"]
    /\ dht_inbox = <<>>
    /\ dht_peer_list = NoPeers
    /\ dht_data_list = NoData
    /\ dht_out = NoOutput
    /\ node = StdNetNode_new

\* entries staged in cursor k
StagedCount(k) == Cardinality(DOMAIN staging_cas[k]) + Cardinality(staging_eav[k])

\* ------------------------------------------------------- cursor operations
\* LmdbCursorProvider::create_cursor: a fresh staging pair under a new UUID
create_cursor(k) ==
    /\ pc[k] = "absent"
    /\ \A j \in Cursors : j < k => pc[j] # "absent"
    /\ pc' = [pc EXCEPT ![k] = "open"]
    /\ staging_cas' = [staging_cas EXCEPT ![k] = EmptyCas]
    /\ staging_eav' = [staging_eav EXCEPT ![k] = {}]
    /\ UNCHANGED <<otherVars, primaryVars, commitVars>>

\* mutant of add: the content is written to the primary CAS (cas_db.add)
add_to_primary(k, c) ==
    /\ pc[k] = "open"
    /\ cas' = lmdb_add(cas, c)
    /\ UNCHANGED <<otherVars, eav, map_size, commitVars, pc, staging_cas, staging_eav>>

\* EnvCursor::add: staging_cas_db.add(content)
add(k, c) ==
    /\ pc[k] = "open"
    /\ Address(c) \in DOMAIN staging_cas[k] \/ StagedCount(k) < MaxStaged
    /\ staging_cas' = [staging_cas EXCEPT ![k] = lmdb_add(staging_cas[k], c)]
    /\ UNCHANGED <<otherVars, primaryVars, commitVars, pc, staging_eav>>

\* EnvCursor::add_eavi: staging_eav_db.resizable_add_lmdb_eavi(eav)
add_eavi(k, r) ==
    /\ pc[k] = "open"
    /\ r \in staging_eav[k] \/ StagedCount(k) < MaxStaged
    /\ staging_eav' = [staging_eav EXCEPT ![k] = staging_eav[k] \cup {r}]
    /\ UNCHANGED <<otherVars, primaryVars, commitVars, pc, staging_cas>>

\* mutant of drop: dropping the cursor flushes its staging pair to the primary
drop_flushes(k) ==
    /\ pc[k] = "open"
    /\ pc' = [pc EXCEPT ![k] = "aborted"]
    /\ cas' = AddAll(cas, lmdb_iter(staging_cas[k]))
    /\ eav' = eav \cup staging_eav[k]
    /\ UNCHANGED <<otherVars, map_size, commitVars, staging_cas, staging_eav>>

\* the cursor goes out of scope without commit: its handle on the staging
\* pair is gone (the stores are kept here as the record of what was staged)
drop(k) ==
    /\ pc[k] = "open"
    /\ pc' = [pc EXCEPT ![k] = "aborted"]
    /\ UNCHANGED <<otherVars, primaryVars, commitVars, staging_cas, staging_eav>>

ReadFaults == {"none", "staging", "primary", "cache"}

\* the shared side of the primary environment lock, taken by a read of a
\* primary store (rkv().read()): granted while no commit holds the write side
rkv_read(envLock) == envLock = 0

\* mutant of fetch: the cursor reads its staging store only
fetch_staging_only(stagingCas, primaryCas, address, fault) ==
    IF fault = "staging" THEN [err |-> TRUE, val |-> None, staging |-> stagingCas]
    ELSE [err |-> FALSE, val |-> lmdb_fetch(stagingCas, address), staging |-> stagingCas]

\* mutant of fetch: the staging store is not consulted
fetch_primary_only(stagingCas, primaryCas, address, fault) ==
    IF fault \in {"staging", "primary"}
    THEN [err |-> TRUE, val |-> None, staging |-> stagingCas]
    ELSE [err |-> FALSE, val |-> lmdb_fetch(primaryCas, address), staging |-> stagingCas]

\* mutant of fetch: what the primary returned is not written to staging
fetch_no_cache(stagingCas, primaryCas, address, fault) ==
    IF fault = "staging" THEN [err |-> TRUE, val |-> None, staging |-> stagingCas]
    ELSE IF lmdb_fetch(stagingCas, address).some
    THEN [err |-> FALSE, val |-> lmdb_fetch(stagingCas, address), staging |-> stagingCas]
    ELSE IF fault = "primary" THEN [err |-> TRUE, val |-> None, staging |-> stagingCas]
    ELSE [err |-> FALSE, val |-> lmdb_fetch(primaryCas, address), staging |-> stagingCas]

\* EnvCursor::fetch: staging first, then the primary, caching what the
\* primary returned into staging.  Gives the return value and the staging CAS
\* after the call; a fault is the backend call that fails.
fetch(stagingCas, primaryCas, address, fault) ==
    IF fault = "staging" THEN [err |-> TRUE, val |-> None, staging |-> stagingCas]
    ELSE IF lmdb_fetch(stagingCas, address).some
    THEN [err |-> FALSE, val |-> lmdb_fetch(stagingCas, address), staging |-> stagingCas]
    ELSE IF fault = "primary" THEN [err |-> TRUE, val |-> None, staging |-> stagingCas]
    ELSE IF lmdb_fetch(primaryCas, address).some
    THEN IF fault = "cache"
         THEN [err |-> TRUE, val |-> None, staging |-> stagingCas]
         ELSE [err |-> FALSE, val |-> lmdb_fetch(primaryCas, address),
               staging |-> lmdb_add(stagingCas, lmdb_fetch(primaryCas, address).v)]
    ELSE [err |-> FALSE, val |-> None, staging |-> stagingCas]

\* EnvCursor::contains: self.fetch(address).map(|c| c.is_some())
contains(stagingCas, primaryCas, address, fault) ==
    LET f == fetch(stagingCas, primaryCas, address, fault)
    IN  [err |-> f.err, val |-> f.val.some, staging |-> f.staging]

\* mutant of fetch_eavi: a non-empty staging result is returned together with
\* the primary's result
fetch_eavi_union(stagingCas, rs, rp, fault, failAt) ==
    IF fault = "staging" THEN [err |-> TRUE, val |-> {}, staging |-> stagingCas]
    ELSE IF rs # {} THEN [err |-> FALSE, val |-> rs \cup rp, staging |-> stagingCas]
    ELSE IF fault = "primary" THEN [err |-> TRUE, val |-> {}, staging |-> stagingCas]
    ELSE [err |-> FALSE, val |-> rp,
          staging |-> AddAll(stagingCas, {EaviContent(r) : r \in rp})]

\* EnvCursor::fetch_eavi: rs / rp are the results of the staging / primary
\* EAV backends; the primary's records are added to the staging CAS one by
\* one in set order, failAt is the record whose add fails under a cache fault
fetch_eavi(stagingCas, rs, rp, fault, failAt) ==
    IF fault = "staging" THEN [err |-> TRUE, val |-> {}, staging |-> stagingCas]
    ELSE IF rs # {} THEN [err |-> FALSE, val |-> rs, staging |-> stagingCas]
    ELSE IF fault = "primary" THEN [err |-> TRUE, val |-> {}, staging |-> stagingCas]
    ELSE IF fault = "cache" /\ failAt \in rp
    THEN [err |-> TRUE, val |-> {},
          staging |-> AddAll(stagingCas,
                        {EaviContent(r) : r \in {x \in rp : cmp(x, failAt) = "Less"}})]
    ELSE [err |-> FALSE, val |-> rp,
          staging |-> AddAll(stagingCas, {EaviContent(r) : r \in rp})]

\* the backend call that a fault makes fail is one the call of fetch reaches
FaultReached(stagingCas, primaryCas, address, fault) ==
    \/ fault \in {"none", "staging"}
    \/ fault = "primary" /\ ~lmdb_fetch(stagingCas, address).some
    \/ /\ fault = "cache"
       /\ ~lmdb_fetch(stagingCas, address).some
       /\ lmdb_fetch(primaryCas, address).some

\* the call of fetch goes on to the primary store
ConsultsPrimary(stagingCas, address, fault) ==
    fault # "staging" /\ ~lmdb_fetch(stagingCas, address).some

\* mutant of Fetch: the primary environment lock is taken before the staging
\* store is consulted
Fetch_env_read_first(k, address, fault) ==
    /\ pc[k] = "open"
    /\ FaultReached(staging_cas[k], cas, address, fault)
    /\ rkv_read(env_lock)
    /\ staging_cas' = [staging_cas EXCEPT
                         ![k] = fetch(staging_cas[k], cas, address, fault).staging]
    /\ UNCHANGED <<otherVars, primaryVars, commitVars, pc, staging_eav>>

\* a cursor calls fetch
Fetch(k, address, fault) ==
    /\ pc[k] = "open"
    /\ FaultReached(staging_cas[k], cas, address, fault)
    /\ ConsultsPrimary(staging_cas[k], address, fault) => rkv_read(env_lock)
    /\ staging_cas' = [staging_cas EXCEPT
                         ![k] = fetch(staging_cas[k], cas, address, fault).staging]
    /\ UNCHANGED <<otherVars, primaryVars, commitVars, pc, staging_eav>>

\* a cursor calls contains
Contains(k, address, fault) ==
    /\ pc[k] = "open"
    /\ FaultReached(staging_cas[k], cas, address, fault)
    /\ ConsultsPrimary(staging_cas[k], address, fault) => rkv_read(env_lock)
    /\ staging_cas' = [staging_cas EXCEPT
                         ![k] = contains(staging_cas[k], cas, address, fault).staging]
    /\ UNCHANGED <<otherVars, primaryVars, commitVars, pc, staging_eav>>

\* a cursor calls fetch_eavi
FetchEavi(k, q, fault) ==
    /\ pc[k] = "open"
    /\ \E rs \in EavResults(staging_eav[k], q), rp \in EavResults(eav, q) :
       \E failAt \in (IF fault = "cache" THEN rp ELSE {NoRecord}) :
          /\ (fault \in {"primary", "cache"}) => (rs = {})
          /\ (fault # "staging" /\ rs = {}) => rkv_read(env_lock)
          /\ staging_cas' =
                [staging_cas EXCEPT
                   ![k] = fetch_eavi(staging_cas[k], rs, rp, fault, failAt).staging]
    /\ UNCHANGED <<otherVars, primaryVars, commitVars, pc, staging_eav>>

\* ------------------------------------------------------------------ commit
CommitFaults == {"none", "other"}

\* common::map_growth_factor()
map_growth_factor == 2

\* result of a write to / a commit of an lmdb transaction that then holds
\* `used` units: StoreError::MapFull when they do not fit the map, any other
\* error when the backend fails
store_result(used, mapSize, fault) ==
    IF used > mapSize THEN "MapFull" ELSE IF fault = "other" THEN "Other" ELSE "Ok"

\* the entry an iterator over S yields first (key order)
NextContent(S) == CHOOSE c \in S : \A d \in S : ContentRank(c) <= ContentRank(d)
NextRecord(S) == CHOOSE r \in S : \A s \in S : RecRank(r) <= RecRank(s)

\* mutant of grow_and_retry: the retry is signalled without growing the map
grow_and_retry_no_growth(w, primaryCas, primaryEav, mapSize, fault) ==
    IF fault = "other"
    THEN [kind |-> "err_other", w |-> NoWriter, cas |-> primaryCas, eav |-> primaryEav,
          map_size |-> mapSize]
    ELSE [kind |-> "retry", w |-> NoWriter, cas |-> primaryCas, eav |-> primaryEav,
          map_size |-> mapSize]

\* mutant of grow_and_retry: the new size is computed from the initial map
\* size, not from the size read from info()
grow_and_retry_from_initial(w, primaryCas, primaryEav, mapSize, fault) ==
    IF fault = "other"
    THEN [kind |-> "err_other", w |-> NoWriter, cas |-> primaryCas, eav |-> primaryEav,
          map_size |-> mapSize]
    ELSE [kind |-> "retry", w |-> NoWriter, cas |-> primaryCas, eav |-> primaryEav,
          map_size |-> InitMapSize * map_growth_factor]

\* mutant of grow_and_retry: growing the map re-creates the environment empty
grow_and_retry_resets(w, primaryCas, primaryEav, mapSize, fault) ==
    IF fault = "other"
    THEN [kind |-> "err_other", w |-> NoWriter, cas |-> primaryCas, eav |-> primaryEav,
          map_size |-> mapSize]
    ELSE [kind |-> "retry", w |-> NoWriter, cas |-> EmptyCas, eav |-> {},
          map_size |-> mapSize * map_growth_factor]

\* store full: the writer is gone, info() / set_map_size(map_size * factor),
\* return Ok(false); a fault in info or set_map_size is returned as Err
grow_and_retry(w, primaryCas, primaryEav, mapSize, fault) ==
    IF fault = "other"
    THEN [kind |-> "err_other", w |-> NoWriter, cas |-> primaryCas, eav |-> primaryEav,
          map_size |-> mapSize]
    ELSE [kind |-> "retry", w |-> NoWriter, cas |-> primaryCas, eav |-> primaryEav,
          map_size |-> mapSize * map_growth_factor]

\* mutant of fail: the writer is committed on the error path
fail_keeps_writes(w, primaryCas, primaryEav, mapSize, res) ==
    [kind |-> IF res = "MapFull" THEN "err_full" ELSE "err_other", w |-> NoWriter,
     cas |-> w.cas, eav |-> w.eav, map_size |-> mapSize]

\* Err(e) leaves commit_internal through `?` or the final closure: the writer
\* is dropped, which aborts the transaction
fail(w, primaryCas, primaryEav, mapSize, res) ==
    [kind |-> IF res = "MapFull" THEN "err_full" ELSE "err_other", w |-> NoWriter,
     cas |-> primaryCas, eav |-> primaryEav, map_size |-> mapSize]

\* mutant of cas_write: the entry is written to the primary outside the writer
cas_write_through(w, content, primaryCas, primaryEav, mapSize, fault) ==
    LET res == store_result(Used(lmdb_add(w.cas, content), w.eav), mapSize, fault)
    IN  IF res = "MapFull"
        THEN grow_and_retry(w, primaryCas, primaryEav, mapSize, fault)
        ELSE IF res # "Ok"
        THEN fail(w, primaryCas, primaryEav, mapSize, res)
        ELSE [kind |-> "next", w |-> [w EXCEPT !.cas = lmdb_add(w.cas, content)],
              cas |-> lmdb_add(primaryCas, content), eav |-> primaryEav,
              map_size |-> mapSize]

\* mutant of cas_write: a full store makes the loop skip the entry
cas_write_skip_full(w, content, primaryCas, primaryEav, mapSize, fault) ==
    LET res == store_result(Used(lmdb_add(w.cas, content), w.eav), mapSize, fault)
    IN  IF res = "MapFull"
        THEN [kind |-> "next", w |-> w, cas |-> primaryCas, eav |-> primaryEav,
              map_size |-> mapSize]
        ELSE IF res # "Ok"
        THEN fail(w, primaryCas, primaryEav, mapSize, res)
        ELSE [kind |-> "next", w |-> [w EXCEPT !.cas = lmdb_add(w.cas, content)],
              cas |-> primaryCas, eav |-> primaryEav, map_size |-> mapSize]

\* commit_internal, one iteration of the loop over staged_cas_data
cas_write(w, content, primaryCas, primaryEav, mapSize, fault) ==
    LET res == store_result(Used(lmdb_add(w.cas, content), w.eav), mapSize, fault)
    IN  IF res = "MapFull"
        THEN grow_and_retry(w, primaryCas, primaryEav, mapSize, fault)
        ELSE IF res # "Ok"
        THEN fail(w, primaryCas, primaryEav, mapSize, res)
        ELSE [kind |-> "next", w |-> [w EXCEPT !.cas = lmdb_add(w.cas, content)],
              cas |-> primaryCas, eav |-> primaryEav, map_size |-> mapSize]

\* EavLmdbStorage::add_lmdb_eavi: the record joins the store
add_lmdb_eavi(store, r) == store \cup {r}

\* mutant of eav_write: the record is written to the primary outside the writer
eav_write_through(w, r, primaryCas, primaryEav, mapSize, fault) ==
    LET res == store_result(Used(w.cas, add_lmdb_eavi(w.eav, r)), mapSize, fault)
    IN  IF res = "MapFull"
        THEN grow_and_retry(w, primaryCas, primaryEav, mapSize, fault)
        ELSE IF res # "Ok"
        THEN fail(w, primaryCas, primaryEav, mapSize, res)
        ELSE [kind |-> "next", w |-> [w EXCEPT !.eav = add_lmdb_eavi(w.eav, r)],
              cas |-> primaryCas, eav |-> add_lmdb_eavi(primaryEav, r),
              map_size |-> mapSize]

\* mutant of eav_write: the result is not tested with is_store_full_result
eav_write_no_intercept(w, r, primaryCas, primaryEav, mapSize, fault) ==
    LET res == store_result(Used(w.cas, add_lmdb_eavi(w.eav, r)), mapSize, fault)
    IN  IF res # "Ok"
        THEN fail(w, primaryCas, primaryEav, mapSize, res)
        ELSE [kind |-> "next", w |-> [w EXCEPT !.eav = add_lmdb_eavi(w.eav, r)],
              cas |-> primaryCas, eav |-> primaryEav, map_size |-> mapSize]

\* commit_internal, one iteration of the loop over staged_eav_data
eav_write(w, r, primaryCas, primaryEav, mapSize, fault) ==
    LET res == store_result(Used(w.cas, add_lmdb_eavi(w.eav, r)), mapSize, fault)
    IN  IF res = "MapFull"
        THEN grow_and_retry(w, primaryCas, primaryEav, mapSize, fault)
        ELSE IF res # "Ok"
        THEN fail(w, primaryCas, primaryEav, mapSize, res)
        ELSE [kind |-> "next", w |-> [w EXCEPT !.eav = add_lmdb_eavi(w.eav, r)],
              cas |-> primaryCas, eav |-> primaryEav, map_size |-> mapSize]

\* mutant of writer_commit: Ok(true) although the CAS writes were not committed
writer_commit_lost(w, primaryCas, primaryEav, mapSize, fault) ==
    LET res == store_result(Used(w.cas, w.eav) + CommitOverhead, mapSize, fault)
    IN  IF res = "Ok"
        THEN [kind |-> "ok", w |-> NoWriter, cas |-> primaryCas, eav |-> w.eav,
              map_size |-> mapSize]
        ELSE IF res = "MapFull"
        THEN grow_and_retry(w, primaryCas, primaryEav, mapSize, fault)
        ELSE fail(w, primaryCas, primaryEav, mapSize, res)

\* commit_internal, writer.commit(): the transaction becomes the primary
writer_commit(w, primaryCas, primaryEav, mapSize, fault) ==
    LET res == store_result(Used(w.cas, w.eav) + CommitOverhead, mapSize, fault)
    IN  IF res = "Ok"
        THEN [kind |-> "ok", w |-> NoWriter, cas |-> w.cas, eav |-> w.eav,
              map_size |-> mapSize]
        ELSE IF res = "MapFull"
        THEN grow_and_retry(w, primaryCas, primaryEav, mapSize, fault)
        ELSE fail(w, primaryCas, primaryEav, mapSize, res)

\* mutant of Finish: the primary environment write lock is not released when
\* commit_internal returns
Finish_keeps_lock(k, out, contPc) ==
    /\ cas' = out.cas
    /\ eav' = out.eav
    /\ map_size' = out.map_size
    /\ writer' = [writer EXCEPT ![k] = out.w]
    /\ env_lock' = env_lock
    /\ pc' = [pc EXCEPT ![k] =
                IF out.kind = "next" THEN contPc
                ELSE IF out.kind = "retry" THEN "commit_internal" ELSE "returned"]
    /\ result' = [result EXCEPT ![k] =
                    IF out.kind = "ok" THEN "Ok"
                    ELSE IF out.kind = "err_other" THEN "ErrOther"
                    ELSE IF out.kind = "err_full" THEN "ErrMapFull" ELSE @]
    /\ staging_lock' = [staging_lock EXCEPT ![k] = out.kind = "next"]
    /\ UNCHANGED otherVars

\* what a step of commit_internal leaves behind; contPc is where the attempt
\* goes on, Ok(false) re-enters commit_internal from the loop of commit,
\* Ok(true) and Err(e) make commit return
Finish(k, out, contPc) ==
    /\ cas' = out.cas
    /\ eav' = out.eav
    /\ map_size' = out.map_size
    /\ writer' = [writer EXCEPT ![k] = out.w]
    /\ env_lock' = IF out.kind = "next" THEN env_lock ELSE 0
    /\ pc' = [pc EXCEPT ![k] =
                IF out.kind = "next" THEN contPc
                ELSE IF out.kind = "retry" THEN "commit_internal" ELSE "returned"]
    /\ result' = [result EXCEPT ![k] =
                    IF out.kind = "ok" THEN "Ok"
                    ELSE IF out.kind = "err_other" THEN "ErrOther"
                    ELSE IF out.kind = "err_full" THEN "ErrMapFull" ELSE @]
    /\ staging_lock' = [staging_lock EXCEPT ![k] = out.kind = "next"]
    /\ UNCHANGED otherVars

\* Writer::commit(self): enters the retry loop
commit(k) ==
    /\ pc[k] = "open"
    /\ pc' = [pc EXCEPT ![k] = "commit_internal"]
    /\ UNCHANGED <<otherVars, primaryVars, commitVars, staging_cas, staging_eav>>

\* mutant of StartAttempt: the primary environment write lock is taken first,
\* the staging read lock while holding it
StartAttempt_env_first(k, fault) ==
    /\ pc[k] = "commit_internal"
    /\ env_lock = 0
    /\ IF fault = "other"
       THEN /\ pc' = [pc EXCEPT ![k] = "returned"]
            /\ result' = [result EXCEPT ![k] = "ErrOther"]
            /\ UNCHANGED <<cas_todo, env_lock, writer>>
       ELSE /\ pc' = [pc EXCEPT ![k] = "cas"]
            /\ cas_todo' = [cas_todo EXCEPT ![k] = lmdb_iter(staging_cas[k])]
            /\ env_lock' = k
            /\ writer' = [writer EXCEPT ![k] = [open |-> TRUE, cas |-> cas, eav |-> eav]]
            /\ UNCHANGED result
    /\ staging_lock' = [staging_lock EXCEPT ![k] = fault # "other"]
    /\ faulted' = [faulted EXCEPT ![k] = fault = "other"]
    /\ UNCHANGED <<otherVars, primaryVars, eav_todo, staging_cas, staging_eav>>

\* commit_internal: staging read lock, staging reader, staged_cas_data
StartAttempt(k, fault) ==
    /\ pc[k] = "commit_internal"
    /\ IF fault = "other"
       THEN /\ pc' = [pc EXCEPT ![k] = "returned"]
            /\ result' = [result EXCEPT ![k] = "ErrOther"]
            /\ UNCHANGED cas_todo
       ELSE /\ pc' = [pc EXCEPT ![k] = "env_write"]
            /\ cas_todo' = [cas_todo EXCEPT ![k] = lmdb_iter(staging_cas[k])]
            /\ UNCHANGED result
    /\ staging_lock' = [staging_lock EXCEPT ![k] = fault # "other"]
    /\ faulted' = [faulted EXCEPT ![k] = fault = "other"]
    /\ UNCHANGED <<otherVars, primaryVars, env_lock, eav_todo, writer, staging_cas, staging_eav>>

\* mutant of AcquireWriter: the writer starts from empty stores, so that its
\* commit replaces the primary by what was staged
AcquireWriter_blank(k) ==
    /\ pc[k] = "env_write"
    /\ env_lock = 0
    /\ env_lock' = k
    /\ writer' = [writer EXCEPT ![k] = [open |-> TRUE, cas |-> EmptyCas, eav |-> {}]]
    /\ pc' = [pc EXCEPT ![k] = "cas"]
    /\ UNCHANGED <<otherVars, primaryVars, result, cas_todo, eav_todo, faulted,
                   staging_lock, staging_cas, staging_eav>>

\* mutant of AcquireWriter: the writer is opened without waiting for the
\* primary environment write lock
AcquireWriter_unlocked(k) ==
    /\ pc[k] = "env_write"
    /\ env_lock' = k
    /\ writer' = [writer EXCEPT ![k] = [open |-> TRUE, cas |-> cas, eav |-> eav]]
    /\ pc' = [pc EXCEPT ![k] = "cas"]
    /\ UNCHANGED <<otherVars, primaryVars, result, cas_todo, eav_todo, faulted,
                   staging_lock, staging_cas, staging_eav>>

\* commit_internal: the primary environment write lock and the writer
AcquireWriter(k) ==
    /\ pc[k] = "env_write"
    /\ env_lock = 0
    /\ env_lock' = k
    /\ writer' = [writer EXCEPT ![k] = [open |-> TRUE, cas |-> cas, eav |-> eav]]
    /\ pc' = [pc EXCEPT ![k] = "cas"]
    /\ UNCHANGED <<otherVars, primaryVars, result, cas_todo, eav_todo, faulted,
                   staging_lock, staging_cas, staging_eav>>

\* mutant of CasPhase: an entry written to the writer is removed from staging
CasPhase_drains(k, fault) ==
    /\ pc[k] = "cas"
    /\ cas_todo[k] # {}
    /\ LET c == NextContent(cas_todo[k])
           out == cas_write(writer[k], c, cas, eav, map_size, fault)
       IN  /\ Finish(k, out, "cas")
           /\ cas_todo' = [cas_todo EXCEPT ![k] = IF out.kind = "next" THEN @ \ {c} ELSE {}]
           /\ staging_cas' =
                 [staging_cas EXCEPT
                    ![k] = IF out.kind = "next"
                           THEN [a \in DOMAIN @ \ {Address(c)} |-> @[a]] ELSE @]
    /\ faulted' = [faulted EXCEPT ![k] = fault = "other"]
    /\ UNCHANGED <<eav_todo, staging_eav>>

\* commit_internal: for (_address, maybe_content) in staged_cas_data
CasPhase(k, fault) ==
    /\ pc[k] = "cas"
    /\ cas_todo[k] # {}
    /\ LET c == NextContent(cas_todo[k])
           out == cas_write(writer[k], c, cas, eav, map_size, fault)
       IN  /\ Finish(k, out, "cas")
           /\ cas_todo' = [cas_todo EXCEPT ![k] = IF out.kind = "next" THEN @ \ {c} ELSE {}]
    /\ faulted' = [faulted EXCEPT ![k] = fault = "other"]
    /\ UNCHANGED <<eav_todo, staging_cas, staging_eav>>

\* commit_internal: staged_eav_data and the reader on the primary
EavPhaseStart(k, fault) ==
    /\ pc[k] = "cas"
    /\ cas_todo[k] = {}
    /\ IF fault = "other"
       THEN /\ Finish(k, fail(writer[k], cas, eav, map_size, "Other"), "eav")
            /\ UNCHANGED eav_todo
       ELSE /\ pc' = [pc EXCEPT ![k] = "eav"]
            /\ eav_todo' = [eav_todo EXCEPT
                              ![k] = fetch_lmdb_eavi(staging_eav[k], DefaultQuery)]
            /\ UNCHANGED <<otherVars, primaryVars, env_lock, result, writer, staging_lock>>
    /\ faulted' = [faulted EXCEPT ![k] = fault = "other"]
    /\ UNCHANGED <<cas_todo, staging_cas, staging_eav>>

\* commit_internal: for eavi in staged_eav_data
EavPhase(k, fault) ==
    /\ pc[k] = "eav"
    /\ eav_todo[k] # {}
    /\ LET r == NextRecord(eav_todo[k])
           out == eav_write(writer[k], r, cas, eav, map_size, fault)
       IN  /\ Finish(k, out, "eav")
           /\ eav_todo' = [eav_todo EXCEPT ![k] = IF out.kind = "next" THEN @ \ {r} ELSE {}]
    /\ faulted' = [faulted EXCEPT ![k] = fault = "other"]
    /\ UNCHANGED <<cas_todo, staging_cas, staging_eav>>

\* commit_internal: drop(staging_env_lock); writer.commit()
WriterCommit(k, fault) ==
    /\ pc[k] = "eav"
    /\ eav_todo[k] = {}
    /\ Finish(k, writer_commit(writer[k], cas, eav, map_size, fault), "eav")
    /\ faulted' = [faulted EXCEPT ![k] = fault = "other"]
    /\ UNCHANGED <<cas_todo, eav_todo, staging_cas, staging_eav>>

\* the steps of cursor k inside commit
CommitStep(k) ==
    \/ \E fault \in CommitFaults : StartAttempt(k, fault)
    \/ AcquireWriter(k)
    \/ \E fault \in CommitFaults : CasPhase(k, fault)
    \/ \E fault \in CommitFaults : EavPhaseStart(k, fault)
    \/ \E fault \in CommitFaults : EavPhase(k, fault)
    \/ \E fault \in CommitFaults : WriterCommit(k, fault)

Next ==
    \E k \in Cursors :
        \/ create_cursor(k)
        \/ \E c \in RawContents : add(k, c)
        \/ \E r \in Records : add_eavi(k, r)
        \/ \E a \in RawAddresses, fault \in ReadFaults : Fetch(k, a, fault)
        \/ \E a \in RawAddresses, fault \in ReadFaults : Contains(k, a, fault)
        \/ \E q \in Queries, fault \in ReadFaults : FetchEavi(k, q, fault)
        \/ drop(k)
        \/ commit(k)
        \/ CommitStep(k)

Spec == Init /\ [][Next]_vars

\* threads are scheduled fairly: a cursor inside commit keeps taking steps
FairSpec == Spec /\ \A k \in Cursors : WF_vars(CommitStep(k))

\* --------------------------------------------------------- cursor clones
\* #[derive(Clone)] on EnvCursor: a second handle on the same four stores
clone(k) ==
    /\ pc[k] = "open"
    /\ k \notin clones
    /\ clones' = clones \cup {k}
    /\ UNCHANGED <<pickle_db, clockVars, ntcVars, dhtVars, node, primaryVars, commitVars, pc, staging_cas,
                   staging_eav>>

\* add through the clone of cursor k; the write to the staging environment
\* waits while a commit attempt reads it
CloneAdd(k, c) ==
    /\ k \in clones
    /\ ~staging_lock[k]
    /\ Address(c) \in DOMAIN staging_cas[k] \/ StagedCount(k) < MaxStaged
    /\ staging_cas' = [staging_cas EXCEPT ![k] = lmdb_add(staging_cas[k], c)]
    /\ UNCHANGED <<otherVars, primaryVars, commitVars, pc, staging_eav>>

\* fetch through the clone of cursor k
CloneFetch(k, address) ==
    /\ k \in clones
    /\ ConsultsPrimary(staging_cas[k], address, "none")
          => (rkv_read(env_lock) /\ ~staging_lock[k])
    /\ staging_cas' = [staging_cas EXCEPT
                         ![k] = fetch(staging_cas[k], cas, address, "none").staging]
    /\ UNCHANGED <<otherVars, primaryVars, commitVars, pc, staging_eav>>

NextClone ==
    \/ Next
    \/ \E k \in Cursors :
          \/ clone(k)
          \/ \E c \in RawContents : CloneAdd(k, c)
          \/ \E a \in RawAddresses : CloneFetch(k, a)

\* the cursors of a manager with clones of cursors in use
CloneSpec == Init /\ [][NextClone]_vars

\* --------------------------------------------------- EAV with two entities
\* records of two entities, so that distinct records share an index
\* (new_with_index takes the index from the caller)
EavEntities == {1, 2}
EavAttributes == {"color", "size"}
EavRecords ==
    [entity : EavEntities, attribute : EavAttributes, value : {1}, index : 1 .. MaxIndex]
EavQueries == [entity : {0} \cup EavEntities, attribute : {""}, value : {0},
               index : {"None", "LatestByAttribute"}]

NextEav ==
    \E k \in Cursors :
        \/ create_cursor(k)
        \/ \E r \in EavRecords : add_eavi(k, r)
        \/ \E q \in EavQueries : FetchEavi(k, q, "none")
        \/ commit(k)
        \/ CommitStep(k)

\* cursors that stage, query and commit EAV records of two entities
EavSpec == Init /\ [][NextEav]_vars

\* ------------------------------------------------- non-transactional CAS
\* address.to_string(): the key of a PickleDb entry
KeyStr(address) == [str |-> address]

\* PickleDb set / get::<Content> with SerializationMethod::Cbor: get gives
\* None for a missing key and for a value that does not deserialize
CborSer(c) == [cbor |-> c]
CborDe(v) == IF v.cbor \in Contents THEN Some(v.cbor) ELSE None

\* PickleStorage::add: inner.set(&content.address().to_string(), &content.content())
pickle_add(db, content) ==
    [key \in DOMAIN db \cup {KeyStr(Address(content))} |->
        IF key = KeyStr(Address(content)) THEN CborSer(content) ELSE db[key]]

\* mutant of pickle_contains: the key is looked up under another string form
\* of the address than add stores it under
pickle_contains_other_key(db, address) == [str |-> address.hash] \in DOMAIN db

\* PickleStorage::contains: inner.exists(&address.to_string())
pickle_contains(db, address) == KeyStr(address) \in DOMAIN db

\* PickleStorage::fetch: inner.get(&address.to_string())
pickle_fetch(db, address) ==
    IF KeyStr(address) \in DOMAIN db THEN CborDe(db[KeyStr(address)]) ELSE None

\* value.to_string().bytes().len(): the raw contents are the strings of
\* pickle_report_storage_test ("some bytes", "more bytes"), an EAVI content
\* is a longer json object
TestStringBytes == 10
ByteLen(c) == IF c.kind = "raw" THEN TestStringBytes ELSE 2 * TestStringBytes + c.r.index

\* mutant of get_byte_count: every entry counts as one test string
RECURSIVE get_byte_count_entries(_)
get_byte_count_entries(db) ==
    IF DOMAIN db = {} THEN 0
    ELSE LET key == CHOOSE x \in DOMAIN db : TRUE
         IN  TestStringBytes
               + get_byte_count_entries([x \in DOMAIN db \ {key} |-> db[x]])

\* PickleStorage::get_byte_count: db.iter().fold(0, |total_bytes, kv|
\* total_bytes + kv.get_value::<Content>().unwrap().to_string().bytes().len())
RECURSIVE get_byte_count(_)
get_byte_count(db) ==
    IF DOMAIN db = {} THEN 0
    ELSE LET key == CHOOSE x \in DOMAIN db : TRUE
         IN  ByteLen(CborDe(db[key]).v)
               + get_byte_count([x \in DOMAIN db \ {key} |-> db[x]])

\* LmdbStorage::fetch and LmdbStorage::contains
LmdbStorage_fetch(store, address) == lmdb_fetch(store, address)
LmdbStorage_contains(store, address) ==
    IF LmdbStorage_fetch(store, address).some THEN TRUE ELSE FALSE

\* NonTransactionalCursor::fetch / contains: self.cas.fetch / self.cas.contains,
\* over a PickleStorage and over an LmdbStorage
Ntc_pickle_fetch(db, address) == pickle_fetch(db, address)
Ntc_pickle_contains(db, address) == pickle_contains(db, address)
Ntc_lmdb_fetch(store, address) == LmdbStorage_fetch(store, address)
Ntc_lmdb_contains(store, address) == LmdbStorage_contains(store, address)

\* a caller adds to a PickleStorage
PickleAdd(c) ==
    /\ pickle_db' = pickle_add(pickle_db, c)
    /\ UNCHANGED <<clones, clockVars, ntcVars, dhtVars, node, primaryVars, commitVars, pc, staging_cas,
                   staging_eav>>

\* a caller adds to the primary LmdbStorage handle (manager.cas()): the write
\* takes effect when it fits the map, else add returns the error
LmdbStorageAdd(c) ==
    /\ env_lock = 0
    /\ cas' = IF store_result(Used(lmdb_add(cas, c), eav), map_size, "none") = "Ok"
              THEN lmdb_add(cas, c) ELSE cas
    /\ UNCHANGED <<otherVars, eav, map_size, commitVars, pc, staging_cas, staging_eav>>

NextStorage ==
    \/ \E c \in Contents : PickleAdd(c)
    \/ \E c \in RawContents : LmdbStorageAdd(c)
    \/ \E k \in Cursors :
          \/ create_cursor(k)
          \/ \E c \in RawContents : add(k, c)
          \/ \E a \in RawAddresses : Fetch(k, a, "none") \/ Contains(k, a, "none")

\* the CAS implementations used without a transaction
StorageSpec == Init /\ [][NextStorage]_vars

\* ----------------------------------------------- NonTransactionalCursor
\* a NonTransactionalCursor<A, PickleStorage, EAV>: its cas field holds an
\* Arc on the PickleDb, its eav field a handle on the EAV store

\* mutant of NonTransactionalCursor_add: the content is kept in a store of
\* its own until commit
NonTransactionalCursor_add_staged(stores, ref, content) ==
    [stores EXCEPT ![MaxHandles] = pickle_add(@, content)]

\* NonTransactionalCursor::add: self.cas.add(content)
NonTransactionalCursor_add(stores, ref, content) ==
    [stores EXCEPT ![ref.cas] = pickle_add(@, content)]

\* NonTransactionalCursor::fetch: self.cas.fetch(address)
NonTransactionalCursor_fetch(stores, ref, address) ==
    pickle_fetch(stores[ref.cas], address)

\* NonTransactionalCursor::add_eavi: self.eav.add_eavi(eavi)
NonTransactionalCursor_add_eavi(stores, ref, eavi) ==
    [stores EXCEPT ![ref.eav] = @ \cup {eavi}]

\* NonTransactionalCursor::fetch_eavi: self.eav.fetch_eavi(query)
NonTransactionalCursor_fetch_eavi(stores, ref, q) ==
    EavResults(stores[ref.eav], q)

\* #[derive(Clone)] on NonTransactionalCursor with PickleStorage's derived
\* Clone: the Arc is cloned, the new handle points to the same stores
NonTransactionalCursor_clone(ref) == ref

\* NoopWriter::commit
NoopWriter_commit == "Ok"

\* a holder of handle h adds a content
NtcAdd(h, c) ==
    /\ ntc_pc[h] = "live"
    /\ ntc_cas' = NonTransactionalCursor_add(ntc_cas, ntc_ref[h], c)
    /\ UNCHANGED <<ntc_pc, ntc_ref, ntc_eav, ntc_result>>
    /\ UNCHANGED <<coreVars, dhtVars, node>>

\* a holder of handle h adds a record
NtcAddEavi(h, r) ==
    /\ ntc_pc[h] = "live"
    /\ ntc_eav' = NonTransactionalCursor_add_eavi(ntc_eav, ntc_ref[h], r)
    /\ UNCHANGED <<ntc_pc, ntc_ref, ntc_cas, ntc_result>>
    /\ UNCHANGED <<coreVars, dhtVars, node>>

\* NonTransactionalCursor::create_cursor on handle h: Ok(self.clone())
NtcCreateCursor(h, g) ==
    /\ ntc_pc[h] = "live" /\ ntc_pc[g] = "absent"
    /\ \A j \in Handles : j < g => ntc_pc[j] # "absent"
    /\ ntc_pc' = [ntc_pc EXCEPT ![g] = "live"]
    /\ ntc_ref' = [ntc_ref EXCEPT ![g] = NonTransactionalCursor_clone(ntc_ref[h])]
    /\ UNCHANGED <<ntc_cas, ntc_eav, ntc_result>>
    /\ UNCHANGED <<coreVars, dhtVars, node>>

\* NonTransactionalCursor::commit(self): NoopWriter {}.commit(); the handle
\* is consumed
NtcCommit(h) ==
    /\ ntc_pc[h] = "live"
    /\ ntc_pc' = [ntc_pc EXCEPT ![h] = "committed"]
    /\ ntc_result' = [ntc_result EXCEPT ![h] = NoopWriter_commit]
    /\ UNCHANGED <<ntc_ref, ntc_cas, ntc_eav>>
    /\ UNCHANGED <<coreVars, dhtVars, node>>

NextNtc ==
    \E h \in Handles :
        \/ \E c \in Contents : NtcAdd(h, c)
        \/ \E r \in Records : NtcAddEavi(h, r)
        \/ \E g \in Handles : NtcCreateCursor(h, g)
        \/ NtcCommit(h)

\* the handles of a NonTransactionalCursor over one pair of stores
NtcSpec == Init /\ [][NextNtc]_vars

\* ---------------------------------------------------------- MirrorDht
\* mutant of add_peer: a timestamp equal to the stored one counts as an update
add_peer_on_equal(peerList, peer_info) ==
    IF peer_info.peer_address \notin DOMAIN peerList
    THEN [list |-> [a \in DOMAIN peerList \cup {peer_info.peer_address} |->
                      IF a = peer_info.peer_address THEN peer_info ELSE peerList[a]],
          ret |-> TRUE]
    ELSE IF peer_info.timestamp < peerList[peer_info.peer_address].timestamp
    THEN [list |-> peerList, ret |-> FALSE]
    ELSE [list |-> [peerList EXCEPT
                      ![peer_info.peer_address].timestamp = peer_info.timestamp],
          ret |-> TRUE]

\* MirrorDht::add_peer: the peer list after the call and the returned flag
add_peer(peerList, peer_info) ==
    IF peer_info.peer_address \notin DOMAIN peerList
    THEN [list |-> [a \in DOMAIN peerList \cup {peer_info.peer_address} |->
                      IF a = peer_info.peer_address THEN peer_info ELSE peerList[a]],
          ret |-> TRUE]
    ELSE IF peer_info.timestamp <= peerList[peer_info.peer_address].timestamp
    THEN [list |-> peerList, ret |-> FALSE]
    ELSE [list |-> [peerList EXCEPT
                      ![peer_info.peer_address].timestamp = peer_info.timestamp],
          ret |-> TRUE]

\* EntryData::merge: the aspects of the other entry that are not held are
\* added; true when one was added
merge(prev_entry, entry) ==
    [entry |-> [prev_entry EXCEPT !.aspect_list = @ \cup entry.aspect_list],
     ret |-> ~(entry.aspect_list \subseteq prev_entry.aspect_list)]

\* MirrorDht::add_data: the data list after the call and the returned flag
add_data(dataList, entry) ==
    IF entry.entry_address \notin DOMAIN dataList
    THEN [list |-> [a \in DOMAIN dataList \cup {entry.entry_address} |->
                      IF a = entry.entry_address THEN entry ELSE dataList[a]],
          ret |-> TRUE]
    ELSE [list |-> [dataList EXCEPT
                      ![entry.entry_address] = merge(@, entry).entry],
          ret |-> merge(dataList[entry.entry_address], entry).ret]

\* MirrorDht::get_peer_list: every stored PeerHoldRequestData (in the
\* iteration order of the HashMap, kept here as a set)
get_peer_list(peerList) == {peerList[a] : a \in DOMAIN peerList}

ServeResult(res, out, peerList, dataList) ==
    [res |-> res, out |-> out, peer_list |-> peerList, data_list |-> dataList]

\* MirrorDht::serve_DhtEvent: Ok with the events for the owner, Err, or a
\* panic.  peerDecodes: the second Deserialize::deserialize, made on the
\* deserializer the first one has read from, gives a PeerHoldRequestData
serve_DhtEvent(peerList, dataList, evt, peerDecodes) ==
    IF evt.type = "RemoteGossipBundle"
    THEN IF evt.bundle.kind = "entry"
         THEN LET r == add_data(dataList, evt.bundle.entry)
              IN  ServeResult("Ok",
                              IF r.ret THEN <<EntryHoldRequest(evt.bundle.entry)>> ELSE <<>>,
                              peerList, r.list)
         ELSE IF evt.bundle.kind = "peer" /\ peerDecodes
         THEN LET r == add_peer(peerList, evt.bundle.peer)
              IN  ServeResult("Ok",
                              IF r.ret THEN <<PeerHoldRequest(evt.bundle.peer)>> ELSE <<>>,
                              r.list, dataList)
         ELSE ServeResult("Err", <<>>, peerList, dataList)
    ELSE IF evt.type = "PeerHoldRequest"
    THEN LET r == add_peer(peerList, evt.peer)
         IN  IF ~r.ret THEN ServeResult("Ok", <<>>, r.list, dataList)
             ELSE ServeResult("Ok",
                     <<GossipTo(get_peer_list(r.list),
                                SerializePeer(r.list[evt.peer.peer_address]))>>,
                     r.list, dataList)
    ELSE IF evt.type = "PeerTimedOut"
    THEN ServeResult("Ok", <<>>, peerList, dataList)
    ELSE IF evt.type = "EntryHoldRequest"
    THEN LET r == add_data(dataList, evt.entry)
         IN  IF ~r.ret THEN ServeResult("Ok", <<>>, peerList, r.list)
             ELSE ServeResult("Ok",
                     <<GossipTo(get_peer_list(peerList),
                                SerializeEntry(r.list[evt.entry.entry_address]))>>,
                     peerList, r.list)
    ELSE ServeResult("panic", <<>>, peerList, dataList)

\* mutant of process_loop: the loop ends at the first event that is served
\* with an error
RECURSIVE process_loop_stops(_, _, _, _, _, _, _)
process_loop_stops(peerList, dataList, inbox, did_work, outbox, served, peerDecodes) ==
    IF inbox = <<>>
    THEN [peer_list |-> peerList, data_list |-> dataList, inbox |-> inbox,
          out |-> [returned |-> TRUE, did_work |-> did_work, outbox |-> outbox,
                   served |-> served]]
    ELSE LET evt == Head(inbox)
             r == serve_DhtEvent(peerList, dataList, evt, peerDecodes)
             srv == Append(served, [evt |-> evt, res |-> r.res])
         IN  IF r.res = "panic"
             THEN [peer_list |-> peerList, data_list |-> dataList, inbox |-> Tail(inbox),
                   out |-> [returned |-> FALSE, did_work |-> FALSE, outbox |-> <<>>,
                            served |-> srv]]
             ELSE IF r.res = "Err"
             THEN [peer_list |-> peerList, data_list |-> dataList, inbox |-> Tail(inbox),
                   out |-> [returned |-> TRUE, did_work |-> did_work, outbox |-> outbox,
                            served |-> srv]]
             ELSE process_loop_stops(r.peer_list, r.data_list, Tail(inbox), TRUE,
                                     outbox \o r.out, srv, peerDecodes)

\* the loop of MirrorDht::process: pop_front, serve, on Ok set did_work and
\* append the output.  served lists the events handed to serve_DhtEvent with
\* what serving gave; a panic unwinds out of process
RECURSIVE process_loop(_, _, _, _, _, _, _)
process_loop(peerList, dataList, inbox, did_work, outbox, served, peerDecodes) ==
    IF inbox = <<>>
    THEN [peer_list |-> peerList, data_list |-> dataList, inbox |-> inbox,
          out |-> [returned |-> TRUE, did_work |-> did_work, outbox |-> outbox,
                   served |-> served]]
    ELSE LET evt == Head(inbox)
             r == serve_DhtEvent(peerList, dataList, evt, peerDecodes)
             srv == Append(served, [evt |-> evt, res |-> r.res])
         IN  IF r.res = "panic"
             THEN [peer_list |-> peerList, data_list |-> dataList, inbox |-> Tail(inbox),
                   out |-> [returned |-> FALSE, did_work |-> FALSE, outbox |-> <<>>,
                            served |-> srv]]
             ELSE process_loop(r.peer_list, r.data_list, Tail(inbox),
                               did_work \/ r.res = "Ok",
                               IF r.res = "Ok" THEN outbox \o r.out ELSE outbox,
                               srv, peerDecodes)

\* MirrorDht::post: inbox.push_back(evt)
DhtPost(evt) ==
    /\ Len(dht_inbox) < MaxInbox
    /\ dht_inbox' = Append(dht_inbox, evt)
    /\ dht_out' = NoOutput
    /\ UNCHANGED <<dht_peer_list, dht_data_list>>
    /\ UNCHANGED <<coreVars, ntcVars, node>>

\* MirrorDht::process
DhtProcess(peerDecodes) ==
    /\ LET p == process_loop(dht_peer_list, dht_data_list, dht_inbox, FALSE, <<>>, <<>>,
                             peerDecodes)
       IN  /\ dht_inbox' = p.inbox
           /\ dht_peer_list' = p.peer_list
           /\ dht_data_list' = p.data_list
           /\ dht_out' = p.out
    /\ UNCHANGED <<coreVars, ntcVars, node>>

NextDht ==
    \/ \E evt \in DhtEvents : DhtPost(evt)
    \/ \E peerDecodes \in BOOLEAN : DhtProcess(peerDecodes)

\* a MirrorDht and its owner
DhtSpec == Init /\ [][NextDht]_vars

\* ---------------------------------------------------------- StdNetNode
\* self.events.push(event): the event carries the number of the push
push_event(st, kind) ==
    [st EXCEPT !.events = Append(@, [kind |-> kind, n |-> st.count + 1]),
               !.count = @ + 1]

\* StdNetNode::listen; ok: wrap_listen(endpoint) gave a socket
listen(st, ok) ==
    IF ~ok THEN push_event([st EXCEPT !.op = "listen"], "ServerOnError")
    ELSE push_event([st EXCEPT !.listen_cons = Append(@, st.nlisten + 1),
                               !.nlisten = @ + 1, !.op = "listen"],
                    "OnListening")

\* StdNetNode::connect; ok: SessionClient::new_initial_connect gave a session
connect(st, ok) ==
    IF ~ok THEN push_event([st EXCEPT !.op = "connect"], "ClientOnError")
    ELSE [st EXCEPT !.client_cons = @ + 1, !.op = "connect"]

\* what con.socket.accept() gives in one pass over a listener: nothing to
\* accept (WouldBlock), a connection that becomes a session and then
\* WouldBlock, a connection whose set_nonblocking or SessionServer::new fails
\* and then WouldBlock, or an error
AcceptOutcomes == {"WouldBlock", "Accepted", "AcceptedBad", "Err"}

\* the for loop of process_listen_cons over self.listen_cons.drain(..): a
\* listener whose accept ends in WouldBlock is pushed to new_listen_cons; an
\* accept error pushes OnError and leaves the for loop (break 'top), which
\* drops the listener and, with the Drain, the listeners behind it
RECURSIVE listen_loop(_, _, _, _)
listen_loop(st, cons, new_listen_cons, acc) ==
    IF cons = <<>> THEN [st EXCEPT !.listen_cons = new_listen_cons]
    ELSE LET con == Head(cons)
         IN  IF acc[con] = "Err"
             THEN [push_event(st, "ServerOnError") EXCEPT
                      !.listen_cons = new_listen_cons,
                      !.accept_err = @ \cup {con}]
             ELSE listen_loop(
                      IF acc[con] = "Accepted"
                      THEN [st EXCEPT !.server_new_cons = @ + 1]
                      ELSE IF acc[con] = "AcceptedBad"
                      THEN push_event(st, "ServerOnError")
                      ELSE st,
                      Tail(cons), Append(new_listen_cons, con), acc)

\* StdNetNode::process_listen_cons
process_listen_cons(st, acc) == listen_loop(st, st.listen_cons, <<>>, acc)

\* what con.process_once() of a session gives: the session or None, with or
\* without an event; identified: the session has a session_id by now
SessionOutcomes == [keep : BOOLEAN, event : BOOLEAN, identified : BOOLEAN]
Idle == [keep |-> TRUE, event |-> FALSE, identified |-> FALSE]
SessionIds == {"s1"}

\* self.events.append(&mut events) for the events of k sessions
RECURSIVE append_session_events(_, _, _)
append_session_events(st, k, out) ==
    IF k = 0 \/ ~out.event THEN st
    ELSE append_session_events(push_event(st, "OnSessionEvent"), k - 1, out)

\* StdNetNode::process_server_cons: the sessions of server_cons, then those of
\* server_new_cons, which move to the map once they have a session id
process_server_cons(st, sOut, nOut) ==
    LET s1 == append_session_events(st, Cardinality(st.server_cons), sOut)
        new_cons_hash == IF sOut.keep THEN st.server_cons ELSE {}
        s2 == append_session_events(s1, st.server_new_cons, nOut)
        moved == st.server_new_cons > 0 /\ nOut.keep /\ nOut.identified
    IN  [s2 EXCEPT
            !.server_new_cons = IF nOut.keep /\ ~nOut.identified THEN @ ELSE 0,
            !.server_cons = IF moved THEN new_cons_hash \cup SessionIds
                            ELSE new_cons_hash]

\* StdNetNode::process_client_cons
process_client_cons(st, cOut) ==
    [append_session_events(st, st.client_cons, cOut) EXCEPT
        !.client_cons = IF cOut.keep THEN @ ELSE 0]

\* mutant of process_once: the events are returned and kept in the queue
process_once_keeps_events(st, acc, sOut, nOut, cOut) ==
    LET s3 == process_client_cons(
                  process_server_cons(
                      process_listen_cons([st EXCEPT !.accept_err = {}], acc),
                      sOut, nOut),
                  cOut)
    IN  [s3 EXCEPT !.returned = s3.events,
                   !.op = "process_once",
                   !.ndelivered = @ + Len(s3.events)]

\* StdNetNode::process_once: the three passes, then self.events.drain(..)
process_once(st, acc, sOut, nOut, cOut) ==
    LET s3 == process_client_cons(
                  process_server_cons(
                      process_listen_cons([st EXCEPT !.accept_err = {}], acc),
                      sOut, nOut),
                  cOut)
    IN  [s3 EXCEPT !.returned = s3.events,
                   !.events = <<>>,
                   !.op = "process_once",
                   !.ndelivered = @ + Len(s3.events)]

\* the run stays within the bounds
NodeBounded(st) ==
    /\ st.count <= MaxEvents
    /\ st.nlisten <= MaxListeners
    /\ st.client_cons <= MaxClients
    /\ st.server_new_cons <= MaxNewCons

\* the owner calls listen
NodeListen(ok) ==
    /\ NodeBounded(listen(node, ok))
    /\ node' = listen(node, ok)
    /\ UNCHANGED <<coreVars, ntcVars, dhtVars>>

\* the owner calls connect
NodeConnect(ok) ==
    /\ NodeBounded(connect(node, ok))
    /\ node' = connect(node, ok)
    /\ UNCHANGED <<coreVars, ntcVars, dhtVars>>

\* the owner calls process_once; the outcomes are those of the sockets and
\* sessions the node holds
NodeProcessOnce(acc, sOut, nOut, cOut) ==
    /\ node.server_cons = {} => sOut = Idle
    /\ sOut.identified = FALSE /\ cOut.identified = FALSE
    /\ node.client_cons = 0 => cOut = Idle
    /\ (node.server_new_cons = 0 /\ \A l \in DOMAIN acc : acc[l] # "Accepted")
          => nOut = Idle
    /\ NodeBounded(process_once(node, acc, sOut, nOut, cOut))
    /\ node' = process_once(node, acc, sOut, nOut, cOut)
    /\ UNCHANGED <<coreVars, ntcVars, dhtVars>>

\* the listeners the node holds
Listeners(st) == {st.listen_cons[i] : i \in 1 .. Len(st.listen_cons)}

NextNode ==
    \/ \E ok \in BOOLEAN : NodeListen(ok)
    \/ \E ok \in BOOLEAN : NodeConnect(ok)
    \/ \E acc \in [Listeners(node) -> AcceptOutcomes],
           sOut \in SessionOutcomes, nOut \in SessionOutcomes, cOut \in SessionOutcomes :
          NodeProcessOnce(acc, sOut, nOut, cOut)

\* a StdNetNode and its owner
NodeSpec == Init /\ [][NextNode]_vars

\* ------------------------------------------------- indices from the clock
\* EntityAttributeValueIndex::new: the index is Utc::now().timestamp_nanos()
EntityAttributeValueIndex_new(entity, attribute, value, now) ==
    [entity |-> entity, attribute |-> attribute, value |-> value, index |-> now]

\* time passes on the wall clock
ClockTick ==
    /\ clock < MaxIndex
    /\ clock' = clock + 1
    /\ UNCHANGED <<clones, pickle_db, ntcVars, dhtVars, node, indices, primaryVars, commitVars, pc,
                   staging_cas, staging_eav>>

\* the system clock is adjusted backwards
ClockStepBack ==
    /\ \E t \in 1 .. MaxIndex : t < clock /\ clock' = t
    /\ UNCHANGED <<clones, pickle_db, ntcVars, dhtVars, node, indices, primaryVars, commitVars, pc,
                   staging_cas, staging_eav>>

\* a caller creates a record with new and writes it with add_eavi
NewAddEavi(k, entity, attribute, value) ==
    /\ Len(indices) < MaxNew
    /\ LET r == EntityAttributeValueIndex_new(entity, attribute, value, clock)
       IN  /\ pc[k] = "open"
           /\ r \in staging_eav[k] \/ StagedCount(k) < MaxStaged
           /\ staging_eav' = [staging_eav EXCEPT ![k] = staging_eav[k] \cup {r}]
           /\ indices' = Append(indices, r.index)
    /\ UNCHANGED <<clones, pickle_db, ntcVars, dhtVars, node, clock, primaryVars, commitVars, pc, staging_cas>>

NextClock ==
    \/ ClockTick
    \/ ClockStepBack
    \/ \E k \in Cursors :
          \/ create_cursor(k)
          \/ \E e \in EavEntities, a \in Attributes : NewAddEavi(k, e, a, 1)

\* a process that creates its records with EntityAttributeValueIndex::new
ClockSpec == Init /\ [][NextClock]_vars

\* the Uuid of the primary CAS (drawn once, when new_manager wraps the store)
\* and of the staging CAS of cursor k
PrimaryCasId == [uuid |-> 0]
StagingCasId(k) == [uuid |-> k]

\* DefaultPersistenceManager::cas(): self.cas.clone(), then get_id()
Manager_cas_get_id == PrimaryCasId

\* EnvCursor::get_id: self.cas_db.get_id()
EnvCursor_get_id(k) == PrimaryCasId

\* the cursors of a manager next to callers that use the manager's primary
\* CAS handle and a PickleStorage directly
NextManager ==
    \/ \E c \in RawContents : PickleAdd(c) \/ LmdbStorageAdd(c)
    \/ \E k \in Cursors :
          \/ create_cursor(k)
          \/ \E c \in RawContents : add(k, c)
          \/ \E r \in Records : add_eavi(k, r)
          \/ \E a \in RawAddresses : Fetch(k, a, "none")
          \/ commit(k)
          \/ CommitStep(k)

ManagerSpec == Init /\ [][NextManager]_vars

\* ---------------------------------------------------------------- properties
\* contents / size of what cursor k holds in staging (kept after commit returned)
Staged(k) == lmdb_iter(staging_cas[k])
StagedSize(k) == Used(staging_cas[k], staging_eav[k])

Committed == {K \in Cursors : result[K] = "Ok"}
InCommit(k) == pc[k] \in {"commit_internal", "env_write", "cas", "eav"}

\* the read transaction on the primary that commit_internal opens before the
\* EAV loop (let reader = env_lock.read()) lives until the attempt returns
reader_alive(k) == pc[k] = "eav"

\* the step is one of cursor k inside commit
CommitStepOf(k) ==
    /\ InCommit(k)
    /\ \/ pc'[k] # pc[k]
       \/ cas_todo'[k] # cas_todo[k]
       \/ eav_todo'[k] # eav_todo[k]
       \/ writer'[k] # writer[k]

\* the backend raises MapFull in the step cursor k takes next
MapFullRaised(k) ==
    /\ writer[k].open
    /\ \/ /\ pc[k] = "cas" /\ cas_todo[k] # {}
          /\ Used(lmdb_add(writer[k].cas, NextContent(cas_todo[k])), writer[k].eav)
                > map_size
       \/ /\ pc[k] = "eav" /\ eav_todo[k] # {}
          /\ Used(writer[k].cas, writer[k].eav \cup {NextRecord(eav_todo[k])}) > map_size
       \/ /\ pc[k] = "eav" /\ eav_todo[k] = {}
          /\ Used(writer[k].cas, writer[k].eav) + CommitOverhead > map_size

\* C1: what a cursor added before its commit returned Ok is what fetch returns
\* in every open cursor and in a cursor created from then on (empty staging);
\* an address that no cursor ever held returns None.
C1_CommitRoundTrip ==
    /\ \A K \in Committed : \A c \in Staged(K) :
          /\ fetch(EmptyCas, cas, Address(c), "none").val = Some(c)
          /\ \A D \in Cursors : pc[D] = "open" =>
                fetch(staging_cas[D], cas, Address(c), "none").val = Some(c)
    /\ \A a \in Addresses :
          (\A j \in Cursors : a \notin DOMAIN staging_cas[j]) =>
             /\ fetch(EmptyCas, cas, a, "none").val = None
             /\ \A D \in Cursors : pc[D] = "open" =>
                   fetch(staging_cas[D], cas, a, "none").val = None

C1_Witness ==
    \E K, D \in Cursors : \E c \in RawContents :
        /\ result[K] = "Ok" /\ c \in Staged(K)
        /\ pc[D] = "open" /\ staging_cas[D] = EmptyCas
        /\ \E a \in RawAddresses : a \notin DOMAIN cas

\* C2: whatever fetch, contains or fetch_eavi return in an open cursor D is held
\* by D's own staging or was staged by a cursor whose commit has returned Ok:
\* nothing staged only in a cursor that has not committed is returned.
C2_StagingPrivate ==
    \A D \in Cursors : pc[D] = "open" =>
        /\ \A a \in Addresses :
              (\/ fetch(staging_cas[D], cas, a, "none").val.some
               \/ contains(staging_cas[D], cas, a, "none").val)
              => (\/ a \in DOMAIN staging_cas[D]
                  \/ \E K \in Committed : a \in DOMAIN staging_cas[K])
        /\ \A q \in Queries :
           \A rs \in EavResults(staging_eav[D], q), rp \in EavResults(eav, q) :
           \A r \in fetch_eavi(staging_cas[D], rs, rp, "none", NoRecord).val :
              \/ r \in staging_eav[D]
              \/ \E K \in Committed : r \in staging_eav[K]

C2_Witness ==
    \E C, D \in Cursors : \E c \in RawContents, r \in Records :
        /\ C # D /\ pc[D] = "open" /\ pc[C] = "eav"
        /\ Address(c) \in DOMAIN writer[C].cas /\ r \in writer[C].eav
        /\ Address(c) \notin DOMAIN staging_cas[D] /\ r \notin staging_eav[D]
        /\ ~fetch(staging_cas[D], cas, Address(c), "none").val.some

\* C3: in an open cursor every staged content is what fetch returns for its
\* address, and contains is true, whatever the primary holds.
C3_ReadYourWrites ==
    \A K \in Cursors : pc[K] = "open" =>
        \A c \in Staged(K) :
            /\ fetch(staging_cas[K], cas, Address(c), "none").val = Some(c)
            /\ contains(staging_cas[K], cas, Address(c), "none").val = TRUE

C3_Witness ==
    \E K \in Cursors : \E c \in RawContents :
        /\ pc[K] = "open" /\ c \in Staged(K) /\ Address(c) \notin DOMAIN cas
        /\ cas # EmptyCas

\* C4: every step leaves the primary CAS and EAV as they are, or is the writer
\* commit of one cursor that returns Ok and adds all of its staged CAS entries
\* and all of its staged EAV records at once (aborted attempts and failed
\* commits write nothing).
C4_AtomicCommit ==
    [][\/ <<cas, eav>>' = <<cas, eav>>
       \/ \E k \in Cursors :
             /\ pc[k] = "eav" /\ pc'[k] = "returned" /\ result'[k] = "Ok"
             /\ cas' = AddAll(cas, Staged(k))
             /\ eav' = eav \cup staging_eav[k]]_vars

C4_Witness ==
    \E k \in Cursors :
        /\ result[k] = "Ok"
        /\ \A j \in Cursors \ {k} : pc[j] = "absent"
        /\ \E c \in RawContents : c \in Staged(k)
        /\ staging_eav[k] # {}
        /\ map_size > InitMapSize

\* C5: in every state, so whenever a read of the primary can run, the primary
\* holds exactly the staged entries of the commits that returned Ok, also while
\* a writer with writes is open, and a fallback read returns exactly those.
C5_NoPartialCommitVisible ==
    /\ DOMAIN cas = UNION {DOMAIN staging_cas[K] : K \in Committed}
    /\ eav = UNION {staging_eav[K] : K \in Committed}
    /\ \A D \in Cursors : pc[D] = "open" =>
          \A a \in Addresses \ DOMAIN staging_cas[D] :
             fetch(staging_cas[D], cas, a, "none").val.some
                <=> (\E K \in Committed : a \in DOMAIN staging_cas[K])

C5_Witness ==
    \E k, D \in Cursors :
        /\ k # D /\ pc[D] = "open"
        /\ writer[k].open /\ writer[k].cas # cas /\ writer[k].eav # eav
        /\ \E a \in DOMAIN writer[k].cas :
              ~fetch(staging_cas[D], cas, a, "none").val.some

\* C6: a step in which a backend call of commit fails makes commit return that
\* error, drops the writer and iterates no further entry, and no step of a
\* commit other than the one returning Ok changes the primary CAS or EAV.
C6_ErrLeavesPrimary ==
    [][\A k \in Cursors :
          /\ (CommitStepOf(k) /\ result'[k] # "Ok") => <<cas, eav>>' = <<cas, eav>>
          /\ (CommitStepOf(k) /\ faulted'[k]) =>
                /\ result'[k] = "ErrOther" /\ pc'[k] = "returned"
                /\ writer'[k] = NoWriter /\ cas_todo'[k] = {} /\ eav_todo'[k] = {}
                /\ env_lock' # k
          /\ (result[k] = "none" /\ result'[k] \in {"ErrOther", "ErrMapFull"}) =>
                faulted'[k]]_vars

C6_Witness ==
    \E k \in Cursors :
        /\ result[k] = "ErrOther" /\ faulted[k]
        /\ \E c \in RawContents : c \in Staged(k)
        /\ staging_eav[k] # {}
        /\ map_size > InitMapSize

\* C7 as stated: commit never returns MapFull, and a MapFull raised in a step
\* always ends the attempt in a retry.
C7_MapFullAlwaysRetried ==
    [][\A k \in Cursors :
          /\ result'[k] # "ErrMapFull"
          /\ (MapFullRaised(k) /\ CommitStepOf(k)) =>
                (pc'[k] = "commit_internal" /\ result'[k] = "none")]_vars

\* C7 amended: commit never returns MapFull, and a MapFull raised in a step ends
\* the attempt in a retry with a larger map, unless info() or set_map_size
\* fails, which makes commit return that other error.
C7_MapFullAbsorbed ==
    [][\A k \in Cursors :
          /\ result'[k] # "ErrMapFull"
          /\ (MapFullRaised(k) /\ CommitStepOf(k)) =>
                \/ /\ pc'[k] = "commit_internal" /\ result'[k] = "none"
                   /\ map_size' = map_size * map_growth_factor
                   /\ ~faulted'[k]
                \/ /\ faulted'[k] /\ result'[k] = "ErrOther"
                   /\ map_size' = map_size]_vars

C7_Witness ==
    \E k \in Cursors :
        /\ pc[k] = "commit_internal" /\ map_size > InitMapSize
        /\ \A j \in Cursors \ {k} : pc[j] = "absent"

\* C8: under fair scheduling a commit that was started returns Ok, unless a
\* backend call failed with an error other than MapFull.
C8_RetryTerminates ==
    \A k \in Cursors : (pc[k] = "commit_internal") ~> (result[k] = "Ok" \/ faulted[k])

C8_Witness ==
    \E k \in Cursors :
        /\ result[k] = "Ok" /\ ~faulted[k]
        /\ \A j \in Cursors \ {k} : pc[j] = "absent"
        /\ map_size >= InitMapSize * map_growth_factor * map_growth_factor

\* C9: a commit of staged data larger than the initial map that returned did so
\* with Ok unless a backend call failed, and then all of the data is read from
\* the primary and the map is at least as large as the data.
C9_OversizedCommit ==
    \A k \in Cursors : (pc[k] = "returned" /\ StagedSize(k) > InitMapSize) =>
        /\ ~faulted[k] => result[k] = "Ok"
        /\ result[k] = "Ok" =>
              /\ \A c \in Staged(k) : lmdb_fetch(cas, Address(c)) = Some(c)
              /\ staging_eav[k] \subseteq eav
              /\ map_size >= StagedSize(k)
              /\ map_size >= Used(cas, eav)

C9_Witness ==
    \E k, j \in Cursors :
        /\ result[k] = "Ok" /\ RawContent(NumContents) \in Staged(k)
        /\ Size(RawContent(NumContents)) > InitMapSize
        /\ result[j] = "Ok" /\ Cardinality(staging_eav[j]) * EavSize > InitMapSize

\* C10: no step of the commit of a cursor with empty staging changes the
\* primary CAS or EAV, and the commit returns Ok unless a backend call failed.
C10_EmptyCommit ==
    [][\A k \in Cursors : (StagedCount(k) = 0 /\ CommitStepOf(k)) =>
          /\ <<cas, eav>>' = <<cas, eav>>
          /\ (pc'[k] = "returned" /\ ~faulted'[k]) => result'[k] = "Ok"]_vars

C10_Witness ==
    \E k \in Cursors :
        /\ result[k] = "Ok" /\ StagedCount(k) = 0
        /\ cas # EmptyCas /\ eav # {}

\* C11: in every attempt of a commit the primary environment write lock is
\* taken while the cursor already holds its staging read lock, and the staging
\* read lock is never taken by a cursor that holds the primary write lock.
C11_LockOrder ==
    [][\A k \in Cursors :
          /\ (env_lock' = k /\ env_lock # k) => (staging_lock[k] /\ staging_lock'[k])
          /\ (staging_lock'[k] /\ ~staging_lock[k]) => (env_lock # k /\ env_lock' # k)
          /\ writer'[k].open => env_lock' = k]_vars

C11_Witness ==
    \E k \in Cursors :
        /\ env_lock = k /\ staging_lock[k] /\ writer[k].open
        /\ map_size > InitMapSize

\* C12: under fair scheduling every commit that was started returns, also when
\* other cursors commit at the same time.
C12_NoDeadlock ==
    \A k \in Cursors : InCommit(k) ~> (pc[k] = "returned")

C12_Witness ==
    \E j, k \in Cursors :
        /\ j # k /\ env_lock = k /\ pc[k] = "eav"
        /\ pc[j] = "env_write" /\ staging_lock[j]

\* the primary after the commits order[1] .. order[n] applied one after the other
RECURSIVE ApplyCommits(_, _)
ApplyCommits(order, n) ==
    IF n = 0 THEN [cas |-> EmptyCas, eav |-> {}]
    ELSE LET p == ApplyCommits(order, n - 1)
         IN  [cas |-> AddAll(p.cas, Staged(order[n])),
              eav |-> p.eav \cup staging_eav[order[n]]]

\* C13: no two cursors have a writer on the primary at the same time, a writer
\* is open only under the primary write lock and on top of the current primary
\* (no commit of another cursor falls between its writes), and the primary is
\* what the commits that returned Ok give when applied one after the other.
C13_Serialized ==
    /\ \A j, k \in Cursors : j # k => ~(writer[j].open /\ writer[k].open)
    /\ \A k \in Cursors : writer[k].open =>
          /\ env_lock = k
          /\ \A a \in DOMAIN cas : a \in DOMAIN writer[k].cas /\ writer[k].cas[a] = cas[a]
          /\ eav \subseteq writer[k].eav
    /\ \E order \in [1 .. Cardinality(Committed) -> Committed] :
          /\ \A m, n \in DOMAIN order : m # n => order[m] # order[n]
          /\ ApplyCommits(order, Cardinality(Committed)).cas = cas
          /\ ApplyCommits(order, Cardinality(Committed)).eav = eav

C13_Witness ==
    \E j, k \in Cursors :
        /\ j # k /\ result[j] = "Ok" /\ result[k] = "Ok"
        /\ DOMAIN staging_cas[j] # DOMAIN staging_cas[k]
        /\ staging_cas[j] # EmptyCas /\ staging_cas[k] # EmptyCas

\* cursor D can stage another entry within the bound of the workload
CanStage(D, isStaged) == isStaged \/ StagedCount(D) < MaxStaged

C15_CursorConsumed ==
    \A k \in Cursors : pc[k] \notin {"absent", "open"} =>
        /\ \A c \in RawContents : ~ENABLED CloneAdd(k, c)
        /\ \A a \in RawAddresses : ~ENABLED CloneFetch(k, a)
        /\ result[k] = "Ok" => k \notin clones

\* C16: a step that stages into an open cursor changes that cursor's staging
\* CAS or staging EAV and nothing else, a step that changes the primary is the
\* writer commit of a cursor inside commit, and dropping an open cursor leaves
\* the primary what the commits that returned Ok made it.
C16_OnlyCommitMutatesPrimary ==
    [][/\ \A k \in Cursors :
             /\ (pc[k] = "open" /\ staging_cas'[k] # staging_cas[k]) =>
                   /\ <<cas, eav, map_size>>' = <<cas, eav, map_size>>
                   /\ staging_eav' = staging_eav
                   /\ \A j \in Cursors \ {k} : staging_cas'[j] = staging_cas[j]
             /\ (pc[k] = "open" /\ staging_eav'[k] # staging_eav[k]) =>
                   /\ <<cas, eav, map_size>>' = <<cas, eav, map_size>>
                   /\ staging_cas' = staging_cas
                   /\ \A j \in Cursors \ {k} : staging_eav'[j] = staging_eav[j]
             /\ (pc[k] = "open" /\ pc'[k] = "aborted") =>
                   /\ <<cas, eav, map_size>>' = <<cas, eav, map_size>>
                   /\ DOMAIN cas' = UNION {DOMAIN staging_cas[K] : K \in Committed}
                   /\ eav' = UNION {staging_eav[K] : K \in Committed}
       /\ (<<cas, eav>>' # <<cas, eav>>) =>
             \E k \in Cursors : InCommit(k) /\ env_lock = k /\ result'[k] = "Ok"]_vars

C16_Witness ==
    \E k \in Cursors : \E c \in RawContents :
        /\ pc[k] = "aborted" /\ c \in Staged(k) /\ staging_eav[k] # {}
        /\ cas # EmptyCas /\ Address(c) \notin DOMAIN cas
        /\ ~(staging_eav[k] \subseteq eav)

\* C17: fetch in an open cursor returns the staged content when staging holds
\* the address, without a call to the primary; else the primary's content,
\* which staging holds afterwards under that address next to what it held;
\* else None with staging unchanged.
C17_FetchCascade ==
    \A D \in Cursors : pc[D] = "open" =>
        \A a \in Addresses :
            LET f == fetch(staging_cas[D], cas, a, "none")
                st == lmdb_fetch(staging_cas[D], a)
                pr == lmdb_fetch(cas, a)
            IN  /\ ~f.err
                /\ st.some =>
                      /\ f.val = st /\ f.staging = staging_cas[D]
                      /\ fetch(staging_cas[D], cas, a, "primary") = f
                /\ (~st.some /\ pr.some) =>
                      /\ f.val = pr
                      /\ lmdb_fetch(f.staging, a) = pr
                      /\ DOMAIN f.staging = DOMAIN staging_cas[D] \cup {a}
                      /\ \A b \in DOMAIN staging_cas[D] : f.staging[b] = staging_cas[D][b]
                /\ (~st.some /\ ~pr.some) =>
                      /\ f.val = None /\ f.staging = staging_cas[D]

C17_Witness ==
    \E D \in Cursors : \E a1, a2, a3 \in Addresses :
        /\ pc[D] = "open"
        /\ a1 \in DOMAIN staging_cas[D] /\ a1 \notin DOMAIN cas
        /\ a2 \notin DOMAIN staging_cas[D] /\ a2 \in DOMAIN cas
        /\ a3 \notin DOMAIN staging_cas[D] /\ a3 \notin DOMAIN cas

\* C18: fetch_eavi(Q) in an open cursor returns the evaluation of Q against
\* staging EAV (match phase, then index filter) when that is not empty and the
\* evaluation against primary EAV otherwise; the result holds only records of
\* staging or primary that match Q, and every staged record that Q selects.
C18_StagingPrecedence ==
    \A D \in Cursors : pc[D] = "open" =>
        \A q \in EavQueries :
        \A rs \in EavResults(staging_eav[D], q), rp \in EavResults(eav, q) :
            LET f == fetch_eavi(staging_cas[D], rs, rp, "none", NoRecord)
                es == fetch_lmdb_eavi(staging_eav[D], q)
                ep == fetch_lmdb_eavi(eav, q)
            IN  /\ es # {} => f.val = es
                /\ es = {} => f.val = ep
                /\ f.val \subseteq Match(staging_eav[D] \cup eav, q)
                /\ \A r \in staging_eav[D] : r \in es => r \in f.val

\* C19: a fetch_eavi(Q) that staging EAV cannot answer and the primary answers
\* with records leaves each returned record in the cursor's staging EAV, so
\* that staging EAV answers the next fetch_eavi(Q) with the same records.
C19_EavCachedInStagingEav ==
    [][\A k \in Cursors : \A q \in Queries :
          (/\ FetchEavi(k, q, "none")
           /\ fetch_lmdb_eavi(staging_eav[k], q) = {}
           /\ fetch_lmdb_eavi(eav, q) # {})
          => /\ fetch_lmdb_eavi(eav, q) \subseteq staging_eav'[k]
             /\ fetch_lmdb_eavi(staging_eav'[k], q) = fetch_lmdb_eavi(eav, q)]_vars

\* C20: for PickleStorage, LmdbStorage, NonTransactionalCursor over either and
\* an open EnvCursor, contains(a) is true exactly when fetch(a) is Some, for
\* every address.
C20_ContainsIffFetch ==
    \A a \in Addresses :
        /\ pickle_contains(pickle_db, a) <=> pickle_fetch(pickle_db, a).some
        /\ LmdbStorage_contains(cas, a) <=> LmdbStorage_fetch(cas, a).some
        /\ Ntc_pickle_contains(pickle_db, a) <=> Ntc_pickle_fetch(pickle_db, a).some
        /\ Ntc_lmdb_contains(cas, a) <=> Ntc_lmdb_fetch(cas, a).some
        /\ \A D \in Cursors : pc[D] = "open" =>
              (contains(staging_cas[D], cas, a, "none").val
                 <=> fetch(staging_cas[D], cas, a, "none").val.some)

C20_Witness ==
    \E D \in Cursors : \E a1, a2 \in RawAddresses :
        /\ pickle_contains(pickle_db, a1) /\ ~pickle_contains(pickle_db, a2)
        /\ LmdbStorage_contains(cas, a1) /\ ~LmdbStorage_contains(cas, a2)
        /\ pc[D] = "open" /\ a1 \notin DOMAIN staging_cas[D]
        /\ a2 \in DOMAIN staging_cas[D]

\* C21: adding a content whose address is stored returns Ok and leaves the
\* store as it is, for an LMDB store (primary and staging) and a PickleStorage,
\* and adding any content twice gives the store that adding it once gives; the
\* writer commit of a cursor whose staged contents are all in the primary
\* leaves the primary CAS as it is.
C21_AddIdempotent ==
    /\ \A c \in Contents :
          /\ lmdb_add(lmdb_add(cas, c), c) = lmdb_add(cas, c)
          /\ pickle_add(pickle_add(pickle_db, c), c) = pickle_add(pickle_db, c)
          /\ c \in lmdb_iter(cas) =>
                /\ lmdb_add(cas, c) = cas
                /\ lmdb_fetch(lmdb_add(cas, c), Address(c)) = Some(c)
                /\ env_lock = 0 =>
                      store_result(Used(lmdb_add(cas, c), eav), map_size, "none") = "Ok"
          /\ pickle_contains(pickle_db, Address(c)) =>
                /\ pickle_add(pickle_db, c) = pickle_db
                /\ pickle_fetch(pickle_add(pickle_db, c), Address(c)) = Some(c)
          /\ \A k \in Cursors :
                /\ lmdb_add(lmdb_add(staging_cas[k], c), c) = lmdb_add(staging_cas[k], c)
                /\ c \in Staged(k) => lmdb_add(staging_cas[k], c) = staging_cas[k]
    /\ \A k \in Cursors :
          (writer[k].open /\ pc[k] = "eav" /\ eav_todo[k] = {}) =>
             LET out == writer_commit(writer[k], cas, eav, map_size, "none")
             IN  out.kind = "ok" =>
                    /\ out.cas = AddAll(cas, Staged(k))
                    /\ Staged(k) \subseteq lmdb_iter(cas) => out.cas = cas

C21_Witness ==
    \E k \in Cursors : \E c \in RawContents :
        /\ writer[k].open /\ pc[k] = "eav" /\ eav_todo[k] = {}
        /\ c \in Staged(k) /\ Staged(k) \subseteq lmdb_iter(cas)
        /\ writer_commit(writer[k], cas, eav, map_size, "none").kind = "ok"
        /\ pickle_contains(pickle_db, Address(c))

\* C22: the indices that successive calls of EntityAttributeValueIndex::new
\* (each followed by add_eavi) assigned are strictly increasing in call order,
\* whatever the clock does between the calls.
C22_IndexMonotonic ==
    \A i, j \in DOMAIN indices : i < j => indices[i] < indices[j]

\* C23: two records that cmp finds Equal are the same record (same entity,
\* attribute, value and index), so the ordered set a query on the primary
\* returns holds every matching record, also those that share an index.
C23_OrderConsistentWithEq ==
    /\ \A k \in Cursors : \A r1, r2 \in staging_eav[k] \cup eav :
          cmp(r1, r2) = "Equal" => r1 = r2
    /\ \A q \in EavQueries : \A T \in EavResults(eav, q) :
          T = fetch_lmdb_eavi(eav, q)

\* C24: what fetch_eavi returns for a LatestByAttribute query in an open cursor
\* with nothing staged holds, for each attribute among the records of the
\* primary that pass the entity/attribute/value filter, exactly one record, and
\* that record has the greatest index of the matching records of its attribute.
C24_LatestByAttribute ==
    \A k \in Cursors : (pc[k] = "open" /\ staging_eav[k] = {}) =>
        \A q \in Queries \cup EavQueries : q.index = "LatestByAttribute" =>
            \A rp \in EavResults(eav, q) :
                LET val == fetch_eavi(staging_cas[k], {}, rp, "none", NoRecord).val
                IN  /\ val \subseteq Match(eav, q)
                    /\ \A a \in {m.attribute : m \in Match(eav, q)} :
                          /\ Cardinality({r \in val : r.attribute = a}) = 1
                          /\ \A r \in val : \A m \in Match(eav, q) :
                                (r.attribute = a /\ m.attribute = a) => m.index <= r.index

\* queries without an index filter: each of entity, attribute, value is
\* constrained or left open
RoundTripQueries ==
    [entity : {0} \cup EavEntities, attribute : {""} \cup EavAttributes,
     value : {0, 1}, index : {"None"}]

\* C25: every record staged in a cursor whose commit returned Ok is returned by
\* fetch_eavi in an open cursor with nothing staged, for every query without
\* index filter whose entity/attribute/value constraints the record meets, and
\* the members of the result are strictly ordered by index.
C25_EavRoundTrip ==
    \A K \in Committed : \A r \in staging_eav[K] :
    \A D \in Cursors : (pc[D] = "open" /\ staging_eav[D] = {}) =>
        \A q \in RoundTripQueries : r \in Match({r}, q) =>
            \A rp \in EavResults(eav, q) :
                LET val == fetch_eavi(staging_cas[D], {}, rp, "none", NoRecord).val
                IN  /\ r \in val
                    /\ \A t1, t2 \in val : t1 # t2 => t1.index # t2.index

\* C26: every step, of a commit that succeeds, retries or fails and of any
\* other cursor operation, keeps every entry of the primary CAS with its value
\* and every record of the primary EAV.
C26_PrimaryOnlyGrows ==
    [][/\ \A a \in DOMAIN cas : a \in DOMAIN cas' /\ cas'[a] = cas[a]
       /\ eav \subseteq eav']_vars

C26_Witness ==
    \E k, j \in Cursors :
        /\ result[k] = "Ok" /\ result[j] = "ErrOther"
        /\ Staged(j) # {} /\ ~(Staged(j) \subseteq lmdb_iter(cas))
        /\ cas # EmptyCas /\ eav # {}
        /\ map_size > InitMapSize

\* C27: what a cursor committed is what fetch and contains on the manager's CAS
\* handle return; a content added through the manager's CAS handle reaches no
\* staging store and is at once what fetch returns in every open cursor that
\* has not staged its address; a cursor's get_id is the id of the manager's
\* CAS handle.
C27_ManagerHandles ==
    /\ [](/\ \A K \in Committed : \A c \in Staged(K) :
                /\ LmdbStorage_fetch(cas, Address(c)) = Some(c)
                /\ LmdbStorage_contains(cas, Address(c))
           /\ \A k \in Cursors : pc[k] # "absent" =>
                /\ EnvCursor_get_id(k) = Manager_cas_get_id
                /\ EnvCursor_get_id(k) # StagingCasId(k))
    /\ [][\A c \in RawContents : (LmdbStorageAdd(c) /\ cas' # cas) =>
             /\ staging_cas' = staging_cas /\ staging_eav' = staging_eav
             /\ LmdbStorage_fetch(cas', Address(c)) = Some(c)
             /\ \A D \in Cursors :
                   (pc[D] = "open" /\ Address(c) \notin DOMAIN staging_cas[D]) =>
                      fetch(staging_cas'[D], cas', Address(c), "none").val = Some(c)]_vars

C27_Witness ==
    \E K, D \in Cursors : \E a \in RawAddresses :
        /\ result[K] = "Ok" /\ Staged(K) # {}
        /\ pc[D] = "open"
        /\ a \in DOMAIN cas
        /\ a \notin DOMAIN staging_cas[K] /\ a \notin DOMAIN staging_cas[D]

\* C28: a call of fetch, contains or fetch_eavi in which a backend call fails,
\* so that the read returns the error, leaves the staging CAS and the staging
\* EAV of every cursor as they were.
C28_ReadErrorKeepsStaging ==
    [][\A k \in Cursors : \A fault \in ReadFaults \ {"none"} :
          (\/ \E a \in RawAddresses : Fetch(k, a, fault) \/ Contains(k, a, fault)
           \/ \E q \in Queries : FetchEavi(k, q, fault))
          => (staging_cas' = staging_cas /\ staging_eav' = staging_eav)]_vars

\* C29: a step that ends a commit attempt in a retry (commit_internal returns
\* Ok(false)) sets the map size to the size before the step times the growth
\* factor, which is strictly greater, and no step makes the map size smaller.
C29_RetryGrowsMap ==
    [][/\ map_size' >= map_size
       /\ \A k \in Cursors :
             (pc[k] \in {"cas", "eav"} /\ pc'[k] = "commit_internal") =>
                /\ map_size' = map_size * map_growth_factor
                /\ map_size' > map_size
                /\ result'[k] = "none" /\ ~writer'[k].open]_vars

C29_Witness ==
    \E k \in Cursors :
        /\ pc[k] = "commit_internal"
        /\ map_size >= InitMapSize * map_growth_factor * map_growth_factor
        /\ cas # EmptyCas

\* C30: no step taken while a cursor is inside commit changes its staging CAS
\* or staging EAV, and every attempt, the first and each retry, iterates
\* exactly the entries that are staged: what it has not yet iterated it has
\* still to write, what it has iterated is in its writer.
C30_CommitKeepsStaging ==
    /\ [][\A k \in Cursors : InCommit(k) =>
             /\ staging_cas'[k] = staging_cas[k]
             /\ staging_eav'[k] = staging_eav[k]]_vars
    /\ [](\A k \in Cursors :
             /\ pc[k] = "env_write" => cas_todo[k] = Staged(k)
             /\ pc[k] = "cas" =>
                   /\ cas_todo[k] \subseteq Staged(k)
                   /\ Staged(k) \ cas_todo[k] \subseteq lmdb_iter(writer[k].cas)
             /\ pc[k] = "eav" =>
                   /\ Staged(k) \subseteq lmdb_iter(writer[k].cas)
                   /\ eav_todo[k] \subseteq staging_eav[k]
                   /\ staging_eav[k] \ eav_todo[k] \subseteq writer[k].eav)

C30_Witness ==
    \E k \in Cursors :
        /\ pc[k] = "eav" /\ eav_todo[k] = {}
        /\ map_size > InitMapSize
        /\ Cardinality(Staged(k)) > 1 /\ staging_eav[k] = {}
        /\ \A j \in Cursors \ {k} : pc[j] = "absent"

\* C31: the commit of a cursor that only read, so that its staging EAV is empty
\* and its staging CAS holds nothing but what its reads cached there (raw
\* contents of the primary CAS, records of fetch_eavi), changes neither the
\* primary CAS nor the primary EAV.
C31_ReadOnlyCommit ==
    [][\A k \in Cursors :
          (/\ CommitStepOf(k)
           /\ staging_eav[k] = {}
           /\ \A c \in Staged(k) : c.kind = "raw" => c \in lmdb_iter(cas))
          => (cas' = cas /\ eav' = eav)]_vars

\* C32 as stated: a LatestByAttribute query in an open cursor returns no record
\* of an attribute for which a matching record with a greater index exists in
\* the cursor's staging EAV or in the primary EAV.
C32_NoStaleRecord ==
    \A k \in Cursors : pc[k] = "open" =>
        \A q \in Queries : q.index = "LatestByAttribute" =>
            \A rs \in EavResults(staging_eav[k], q), rp \in EavResults(eav, q) :
                \A r \in fetch_eavi(staging_cas[k], rs, rp, "none", NoRecord).val :
                    ~\E m \in Match(staging_eav[k] \cup eav, q) :
                        m.attribute = r.attribute /\ m.index > r.index

\* C32 amended: a LatestByAttribute query in an open cursor returns records of
\* the store that answers it only, staging EAV when its result is not empty
\* and the primary EAV otherwise, and no record of an attribute for which that
\* store holds a matching record with a greater index; a record staged in the
\* cursor does shadow a newer record of the primary.
C32_NoStaleInAnsweringStore ==
    \A k \in Cursors : pc[k] = "open" =>
        \A q \in Queries : q.index = "LatestByAttribute" =>
            \A rs \in EavResults(staging_eav[k], q), rp \in EavResults(eav, q) :
                LET val == fetch_eavi(staging_cas[k], rs, rp, "none", NoRecord).val
                    store == IF rs # {} THEN staging_eav[k] ELSE eav
                IN  /\ val \subseteq Match(store, q)
                    /\ \A r \in val :
                          ~\E m \in Match(store, q) :
                              m.attribute = r.attribute /\ m.index > r.index

C32_Witness ==
    \E k \in Cursors : \E r \in staging_eav[k], m \in eav :
        /\ pc[k] = "open"
        /\ m.entity = r.entity /\ m.attribute = r.attribute /\ m.index > r.index
        /\ m \notin staging_eav[k]

\* C33: a step of a commit attempt that grows the primary map is taken by a
\* cursor that holds no transaction on the primary environment when it calls
\* set_map_size: its writer is released and the read transaction the attempt
\* opened is not alive.
C33_GrowWithoutTransaction ==
    [][\A k \in Cursors :
          (CommitStepOf(k) /\ map_size' # map_size) =>
             (~writer'[k].open /\ ~reader_alive(k))]_vars

\* C34: once a commit has returned Ok, every content it staged is what fetch
\* returns on every open cursor that has no staged entry for that address,
\* cursors created before the commit included.
C34_CommittedVisible ==
    \A k \in Committed : \A d \in Cursors : pc[d] = "open" =>
        \A c \in Staged(k) : Address(c) \notin DOMAIN staging_cas[d] =>
            LET f == fetch(staging_cas[d], cas, Address(c), "none")
            IN  ~f.err /\ f.val = Some(c)

\* cursor 1 was created before cursor 2 (create_cursor hands them out in
\* order), so before the commit of cursor 2
C34_Witness ==
    /\ 2 \in Committed /\ pc[1] = "open"
    /\ \E c \in Staged(2) : Address(c) \notin DOMAIN staging_cas[1]

\* C35: a NonTransactionalCursor has no staging.  add and add_eavi on a handle
\* change the wrapped stores at once and every live handle reads the new
\* entry back; commit returns Ok and changes no store; create_cursor gives a
\* handle on the same stores.
C35_NonTransactional ==
    [][\A h \in Handles :
          /\ \A c \in Contents : NtcAdd(h, c) =>
                \A g \in Handles : ntc_pc[g] = "live" =>
                    NonTransactionalCursor_fetch(ntc_cas', ntc_ref'[g], Address(c)) = Some(c)
          /\ \A r \in Records : NtcAddEavi(h, r) =>
                \A g \in Handles : ntc_pc[g] = "live" =>
                    \A rs \in NonTransactionalCursor_fetch_eavi(ntc_eav', ntc_ref'[g],
                                                                DefaultQuery) : r \in rs
          /\ NtcCommit(h) =>
                /\ ntc_result'[h] = "Ok"
                /\ <<ntc_cas, ntc_eav>>' = <<ntc_cas, ntc_eav>>
          /\ \A g \in Handles : NtcCreateCursor(h, g) =>
                /\ ntc_ref'[g] = ntc_ref[h]
                /\ <<ntc_cas, ntc_eav>>' = <<ntc_cas, ntc_eav>>]_vars

\* both handles are live; the clone reads back a content and a record is stored
C35_Witness ==
    /\ \A h \in Handles : ntc_pc[h] = "live"
    /\ \E c \in RawContents :
          NonTransactionalCursor_fetch(ntc_cas, ntc_ref[2], Address(c)) = Some(c)
    /\ \E s \in Handles : ntc_eav[s] # {}

\* a hold request brings new content: an unknown peer or a strictly greater
\* timestamp; an unknown entry address or an aspect that is not held
BringsNewContent(evt) ==
    IF evt.type = "PeerHoldRequest"
    THEN \/ evt.peer.peer_address \notin DOMAIN dht_peer_list
         \/ evt.peer.timestamp > dht_peer_list[evt.peer.peer_address].timestamp
    ELSE \/ evt.entry.entry_address \notin DOMAIN dht_data_list
         \/ \E x \in evt.entry.aspect_list :
               x \notin dht_data_list[evt.entry.entry_address].aspect_list

\* C36: serving an EntryHoldRequest or a PeerHoldRequest that brings new
\* content stores it and gives exactly one GossipTo event whose address list
\* is every known peer; serving one that brings nothing new gives no event
\* and leaves peer_list and data_list as they were.
C36_HoldRequests ==
    \A evt \in DhtEvents : evt.type \in {"PeerHoldRequest", "EntryHoldRequest"} =>
        \A d \in BOOLEAN :
            LET r == serve_DhtEvent(dht_peer_list, dht_data_list, evt, d)
            IN  /\ r.res = "Ok"
                /\ IF BringsNewContent(evt)
                   THEN /\ Len(r.out) = 1
                        /\ r.out[1].type = "GossipTo"
                        /\ r.out[1].peer_address_list =
                              {r.peer_list[a] : a \in DOMAIN r.peer_list}
                        /\ \A a \in DOMAIN dht_peer_list : a \in DOMAIN r.peer_list
                        /\ IF evt.type = "PeerHoldRequest"
                           THEN /\ evt.peer.peer_address \in DOMAIN r.peer_list
                                /\ r.peer_list[evt.peer.peer_address].timestamp
                                      = evt.peer.timestamp
                                /\ r.out[1].bundle
                                      = SerializePeer(r.peer_list[evt.peer.peer_address])
                                /\ r.data_list = dht_data_list
                           ELSE /\ evt.entry.entry_address \in DOMAIN r.data_list
                                /\ evt.entry.aspect_list \subseteq
                                      r.data_list[evt.entry.entry_address].aspect_list
                                /\ r.out[1].bundle
                                      = SerializeEntry(r.data_list[evt.entry.entry_address])
                                /\ r.peer_list = dht_peer_list
                   ELSE /\ r.out = <<>>
                        /\ r.peer_list = dht_peer_list
                        /\ r.data_list = dht_data_list

\* process has served a hold request with a GossipTo to two peers and one
\* without an event, and an entry is held
C36_Witness ==
    /\ dht_out.returned
    /\ Len(dht_out.served) = 2 /\ Len(dht_out.outbox) = 1
    /\ dht_out.served[1].evt.type = "PeerHoldRequest"
    /\ dht_out.served[2].evt = dht_out.served[1].evt
    /\ dht_out.outbox[1].type = "GossipTo"
    /\ Cardinality(dht_out.outbox[1].peer_address_list) = 2
    /\ DOMAIN dht_data_list # {}

\* the events of a sequence of served events
ServedEvents(served) == [i \in 1 .. Len(served) |-> served[i].evt]

\* what process must have done with the inbox it found
ProcessedAll ==
    /\ dht_out'.returned
    /\ dht_inbox' = <<>>
    /\ ServedEvents(dht_out'.served) = dht_inbox
    /\ dht_out'.did_work =
          (\E i \in 1 .. Len(dht_out'.served) : dht_out'.served[i].res = "Ok")

\* C37: process serves the posted events in FIFO order, each exactly once,
\* leaves the inbox empty, always returns Ok (an error of one event is
\* swallowed and the events behind it are served), and did_work is true
\* exactly when an event was served without error.
C37_ProcessAlwaysReturns ==
    [][(\E d \in BOOLEAN : DhtProcess(d)) => ProcessedAll]_vars

\* C37 (amended): the same for an inbox without an event of a kind that
\* serve_DhtEvent panics on; with such an event process does not return: the
\* events up to the first such one are served in order and those behind it
\* stay in the inbox.
C37_ProcessServedKinds ==
    [][(\E d \in BOOLEAN : DhtProcess(d)) =>
          IF \A i \in 1 .. Len(dht_inbox) : dht_inbox[i].type \notin NotServedTypes
          THEN ProcessedAll
          ELSE /\ ~dht_out'.returned
               /\ ServedEvents(dht_out'.served) \o dht_inbox' = dht_inbox
               /\ dht_out'.served[Len(dht_out'.served)].evt.type \in NotServedTypes
               /\ \A i \in 1 .. Len(dht_out'.served) - 1 :
                     dht_out'.served[i].evt.type \notin NotServedTypes]_vars

\* process has returned after an event that was served with an error and a
\* later one that was served without
C37_Witness ==
    /\ dht_out.returned /\ dht_out.did_work /\ dht_inbox = <<>>
    /\ Len(dht_out.served) = 2
    /\ dht_out.served[1].res = "Err" /\ dht_out.served[2].res = "Ok"

\* the contents a PickleDb gives back, one per address
PickleStored(db) == {c \in Contents : pickle_fetch(db, Address(c)) = Some(c)}

RECURSIVE SumBytes(_)
SumBytes(S) ==
    IF S = {} THEN 0
    ELSE LET c == CHOOSE x \in S : TRUE IN ByteLen(c) + SumBytes(S \ {c})

\* C38: get_byte_count is the sum of the byte lengths of the string forms of
\* the stored contents, one term per address: 20 with the two 10-byte test
\* contents stored, and an add changes it by the length of the content when
\* the content was not stored and not at all when it was.
C38_ByteCount ==
    /\ [](get_byte_count(pickle_db) = SumBytes(PickleStored(pickle_db)))
    /\ [](PickleStored(pickle_db) = {RawContent(1), RawContent(2)}
            => get_byte_count(pickle_db) = 20)
    /\ [][\A c \in Contents : PickleAdd(c) =>
             get_byte_count(pickle_db') =
                 get_byte_count(pickle_db)
                   + (IF pickle_contains(pickle_db, Address(c)) THEN 0 ELSE ByteLen(c))]_vars

\* the two test contents are stored and nothing else
C38_Witness ==
    /\ PickleStored(pickle_db) = {RawContent(1), RawContent(2)}
    /\ get_byte_count(pickle_db) = 20

\* the step is a call of process_once
ProcessOnceStep == node'.op = "process_once"

\* C39: every event pushed is returned by exactly one later process_once, in
\* the order pushed: the events returned so far and the queued ones are the
\* pushes 1..count in order, and process_once returns the queue it found
\* first and leaves the queue empty.  A failed listen or connect pushes one
\* OnError and registers nothing; a successful listen registers the listener
\* and pushes OnListening.
C39_EventsOnce ==
    /\ [](/\ Len(node.events) = node.count - node.ndelivered
          /\ \A i \in 1 .. Len(node.events) : node.events[i].n = node.ndelivered + i
          /\ Len(node.returned) <= node.ndelivered
          /\ \A i \in 1 .. Len(node.returned) :
                node.returned[i].n = node.ndelivered - Len(node.returned) + i)
    /\ [][/\ ProcessOnceStep =>
                /\ node'.events = <<>>
                /\ Len(node'.returned) >= Len(node.events)
                /\ SubSeq(node'.returned, 1, Len(node.events)) = node.events
          /\ NodeListen(FALSE) =>
                /\ node'.events = Append(node.events,
                                         [kind |-> "ServerOnError", n |-> node.count + 1])
                /\ node'.listen_cons = node.listen_cons
                /\ node'.client_cons = node.client_cons
          /\ NodeConnect(FALSE) =>
                /\ node'.events = Append(node.events,
                                         [kind |-> "ClientOnError", n |-> node.count + 1])
                /\ node'.listen_cons = node.listen_cons
                /\ node'.client_cons = node.client_cons
          /\ NodeListen(TRUE) =>
                /\ node'.events = Append(node.events,
                                         [kind |-> "OnListening", n |-> node.count + 1])
                /\ Len(node'.listen_cons) = Len(node.listen_cons) + 1
                /\ SubSeq(node'.listen_cons, 1, Len(node.listen_cons)) = node.listen_cons
         ]_vars

\* a second process_once has returned the OnListening of a listen and the
\* OnError of a failed connect in the order they were pushed
C39_Witness ==
    /\ node.ndelivered > Len(node.returned)
    /\ Len(node.returned) = 2 /\ node.events = <<>>
    /\ node.returned[1].kind = "OnListening"
    /\ node.returned[2].kind = "ClientOnError"
    /\ node.listen_cons # <<>>

\* C40: process_once removes a listener only if its own accept failed with an
\* error other than WouldBlock; every other listener is still registered
\* when process_once returns.
C40_OnlyFailedListenerRemoved ==
    [][ProcessOnceStep =>
          \A l \in Listeners(node) :
              l \notin Listeners(node') => l \in node'.accept_err]_vars

====
